---- MODULE Spec2Model ----
(***************************************************************************)
(* A model of the function overloader of this repository: the type-pattern *)
(* parser, the structural value matcher, the signature matcher and the     *)
(* dispatch registry.  The repository holds two versions of the overloader *)
(* (src/TaskProcessor.js lines 181-653 and src/overloader.js); the         *)
(* variable impl says which file's code runs, and every operator that      *)
(* differs between the two files takes impl and follows the file it names. *)
(*                                                                         *)
(* Texts are sequences of one-character strings, so that the scanners,     *)
(* the regular expressions and split/join act on characters as the code    *)
(* does.  JavaScript values and parsed type nodes are records with a fixed *)
(* set of fields.                                                          *)
(***************************************************************************)
EXTENDS Integers, Sequences, FiniteSets, TLC

\* The two source files that define the overloader.
TP == "TaskProcessor.js"
OV == "overloader.js"
Impls == {TP, OV}

----------------------------------------------------------------------------
\* Characters and texts

Digits == {"0", "1", "2", "3", "4", "5", "6", "7", "8", "9"}

\* \s of a JavaScript regular expression, and what String.prototype.trim removes
Whitespace == {" ", "\t", "\n", "\r"}

DigitValue(c) == CASE c = "0" -> 0 [] c = "1" -> 1 [] c = "2" -> 2 [] c = "3" -> 3
                   [] c = "4" -> 4 [] c = "5" -> 5 [] c = "6" -> 6 [] c = "7" -> 7
                   [] c = "8" -> 8 [] c = "9" -> 9

MinOf(S) == CHOOSE x \in S : \A y \in S : x <= y
MaxOf(S) == CHOOSE x \in S : \A y \in S : x >= y

\* String.prototype.trim
Trim(s) ==
    LET keep == {i \in 1..Len(s) : s[i] \notin Whitespace}
    IN  IF keep = {} THEN << >> ELSE SubSeq(s, MinOf(keep), MaxOf(keep))

\* String.prototype.startsWith / endsWith / includes
StartsWith(s, p) == Len(s) >= Len(p) /\ SubSeq(s, 1, Len(p)) = p
EndsWith(s, p) == Len(s) >= Len(p) /\ SubSeq(s, Len(s) - Len(p) + 1, Len(s)) = p
Includes(s, p) == \E i \in 1..(Len(s) - Len(p) + 1) : SubSeq(s, i, i + Len(p) - 1) = p

\* s.slice(1, -1) and s.slice(0, -n)
SliceInner(s) == SubSeq(s, 2, Len(s) - 1)
DropLast(s, n) == SubSeq(s, 1, Len(s) - n)

\* String.prototype.split(sep) for a one-character separator: always at least
\* one part; the empty text splits into one empty part.
RECURSIVE SplitChar(_, _)
SplitChar(s, sep) ==
    LET hits == {i \in 1..Len(s) : s[i] = sep}
    IN  IF hits = {} THEN << s >>
        ELSE LET i == MinOf(hits)
             IN  << SubSeq(s, 1, i - 1) >> \o SplitChar(SubSeq(s, i + 1, Len(s)), sep)

\* Array.prototype.join(sep) for a one-character separator
RECURSIVE JoinChar(_, _)
JoinChar(parts, sep) ==
    IF Len(parts) = 0 THEN << >>
    ELSE IF Len(parts) = 1 THEN parts[1]
    ELSE parts[1] \o << sep >> \o JoinChar(Tail(parts), sep)

\* str.replace("?", "|undefined"): a text pattern replaces the first occurrence only
ReplaceFirstQuestion(s) ==
    LET hits == {i \in 1..Len(s) : s[i] = "?"}
    IN  IF hits = {} THEN s
        ELSE LET i == MinOf(hits)
             IN  SubSeq(s, 1, i - 1)
                   \o << "|", "u", "n", "d", "e", "f", "i", "n", "e", "d" >>
                   \o SubSeq(s, i + 1, Len(s))

\* txt.replace(/[\r\n\s]/g, ""): every whitespace character is removed
RemoveWhitespace(s) == SelectSeq(s, LAMBDA c : c \notin Whitespace)

----------------------------------------------------------------------------
\* JavaScript values.  Every value is a record with the same fields:
\*   k   the kind: "undefined", "null", "number", "string", "boolean",
\*       "function", "array" or "object"
\*   n,d a number is n / 10^d with d as small as possible; a boolean has n = 1
\*       for true; a function has its identity in n
\*   s   the characters of a string
\*   e   the elements of an array, or the property values of an object
\*   ks  the property names of an object, in the order of e

Val(k, n, d, s, e, ks) == [k |-> k, n |-> n, d |-> d, s |-> s, e |-> e, ks |-> ks]
Undefined == Val("undefined", 0, 0, << >>, << >>, << >>)
Null == Val("null", 0, 0, << >>, << >>, << >>)
Num(n) == Val("number", n, 0, << >>, << >>, << >>)
Dec(n, d) == Val("number", n, d, << >>, << >>, << >>)
Str(s) == Val("string", 0, 0, s, << >>, << >>)
Bool(b) == Val("boolean", IF b THEN 1 ELSE 0, 0, << >>, << >>, << >>)
Func(id) == Val("function", id, 0, << >>, << >>, << >>)
Arr(e) == Val("array", 0, 0, << >>, e, << >>)
Obj(ks, e) == Val("object", 0, 0, << >>, e, ks)

\* actual === literal, for a literal that is a number, a string or a boolean
StrictEquals(a, b) == a.k = b.k /\ a.k \in {"number", "string", "boolean"} /\ a = b

S_null == << "n", "u", "l", "l" >>
S_undefined == << "u", "n", "d", "e", "f", "i", "n", "e", "d" >>
S_array == << "a", "r", "r", "a", "y" >>
S_any == << "a", "n", "y" >>
S_Function == << "F", "u", "n", "c", "t", "i", "o", "n" >>
S_object == << "o", "b", "j", "e", "c", "t" >>
S_number == << "n", "u", "m", "b", "e", "r" >>
S_string == << "s", "t", "r", "i", "n", "g" >>
S_boolean == << "b", "o", "o", "l", "e", "a", "n" >>
S_true == << "t", "r", "u", "e" >>
S_false == << "f", "a", "l", "s", "e" >>

\* typeof for the kinds that are neither null, undefined, an array nor a function
TypeofName(arg) ==
    CASE arg.k = "number" -> S_number
      [] arg.k = "string" -> S_string
      [] arg.k = "boolean" -> S_boolean
      [] OTHER -> S_object

\* myTypeof of src/TaskProcessor.js
myTypeof(arg) ==
    IF arg.k = "null" THEN S_null
    ELSE IF arg.k = "undefined" THEN S_undefined
    ELSE IF arg.k = "array" THEN S_array
    ELSE IF arg.k = "function" THEN S_Function
    ELSE TypeofName(arg)

\* myTypeof of src/overloader.js: arrays are "[]" and objects are "{}"
myTypeof_ov(arg) ==
    IF arg.k = "null" THEN S_null
    ELSE IF arg.k = "undefined" THEN S_undefined
    ELSE IF arg.k = "array" THEN << "[", "]" >>
    ELSE IF arg.k = "function" THEN S_Function
    ELSE IF arg.k = "object" THEN << "{", "}" >>
    ELSE TypeofName(arg)

IsArray(impl, arg) == IF impl = TP THEN myTypeof(arg) = S_array ELSE myTypeof_ov(arg) = << "[", "]" >>
IsObject(impl, arg) == IF impl = TP THEN myTypeof(arg) = S_object ELSE myTypeof_ov(arg) = << "{", "}" >>

----------------------------------------------------------------------------
\* Literals

\* /^-?\d+(\.\d+)?$/
IsNumericLiteral(s) ==
    LET body == IF Len(s) > 0 /\ s[1] = "-" THEN Tail(s) ELSE s
        dots == {i \in 1..Len(body) : body[i] = "."}
    IN  /\ Len(body) > 0
        /\ \A i \in 1..Len(body) : body[i] \in Digits \cup {"."}
        /\ Cardinality(dots) <= 1
        /\ \A i \in dots : i > 1 /\ i < Len(body)

\* /^['"].*['"]$/: the two quotes need not be the same character
IsQuotedLiteral(s) ==
    /\ Len(s) >= 2
    /\ s[1] \in {"'", "\""}
    /\ s[Len(s)] \in {"'", "\""}
    /\ \A i \in 2..(Len(s) - 1) : s[i] \notin {"\n", "\r"}

RECURSIVE DigitsValue(_)
DigitsValue(ds) == IF Len(ds) = 0 THEN 0 ELSE 10 * DigitsValue(DropLast(ds, 1)) + DigitValue(ds[Len(ds)])

RECURSIVE Normalize(_, _)
Normalize(n, d) == IF d > 0 /\ n % 10 = 0 THEN Normalize(n \div 10, d - 1) ELSE << n, d >>

\* Number(text) for a text IsNumericLiteral accepts (-0 === 0, so -0 is 0)
NumberOf(s) ==
    LET neg == s[1] = "-"
        body == IF neg THEN Tail(s) ELSE s
        ds == SelectSeq(body, LAMBDA c : c # ".")
        dots == {i \in 1..Len(body) : body[i] = "."}
        d == IF dots = {} THEN 0 ELSE Len(body) - MinOf(dots)
        nd == Normalize(DigitsValue(ds), d)
    IN  Dec(IF neg THEN 0 - nd[1] ELSE nd[1], nd[2])

----------------------------------------------------------------------------
\* The bracket- and quote-aware scanners

BoolToInt(b) == IF b THEN 1 ELSE 0

\* splitAny(SYMBOL)(str) of src/TaskProcessor.js.  quoteChar is "" while it is
\* undefined or false.  The bracket depth is counted inside quotes too.
RECURSIVE splitAnyLoop(_, _, _, _, _, _, _, _)
splitAnyLoop(SYMBOL, str, i, depth, start, canSplit, quoteChar, result) ==
    IF i > Len(str) THEN Append(result, Trim(SubSeq(str, start, Len(str))))
    ELSE LET char == str[i]
             isQuote == char \in {"\"", "'"}
             closing == isQuote /\ quoteChar # "" /\ quoteChar = char
             canSplit2 == IF isQuote THEN closing ELSE canSplit
             quoteChar2 == IF ~isQuote THEN quoteChar
                           ELSE IF closing THEN ""
                           ELSE IF quoteChar = "" THEN char ELSE quoteChar
             opens == char \in {"[", "{", "("}
             closes == char \in {"]", "}", ")"}
             splits == ~opens /\ ~closes /\ canSplit2 /\ char = SYMBOL /\ depth = 0
         IN  splitAnyLoop(SYMBOL, str, i + 1,
                          depth + BoolToInt(opens) - BoolToInt(closes),
                          IF splits THEN i + 1 ELSE start,
                          canSplit2, quoteChar2,
                          IF splits THEN Append(result, Trim(SubSeq(str, start, i - 1)))
                          ELSE result)

splitAny(SYMBOL, str) == splitAnyLoop(SYMBOL, str, 1, 0, 1, TRUE, "", << >>)

\* splitUnionTypes and splitArrayElements of src/overloader.js: the same loop
\* for "|" and for ",".  Brackets inside quotes are not counted, and a last
\* part that is blank is dropped.
RECURSIVE splitLoop_ov(_, _, _, _, _, _, _, _)
splitLoop_ov(SYMBOL, str, i, current, depth, inQuotes, quoteChar, result) ==
    IF i > Len(str)
    THEN IF Trim(current) # << >> THEN Append(result, Trim(current)) ELSE result
    ELSE LET char == str[i]
             isQuote == char \in {"\"", "'"}
             opening == ~inQuotes /\ isQuote
             closing == inQuotes /\ char = quoteChar
             inQuotes2 == IF opening THEN TRUE ELSE IF closing THEN FALSE ELSE inQuotes
             quoteChar2 == IF opening THEN char ELSE IF closing THEN "" ELSE quoteChar
             opens == ~inQuotes2 /\ char \in {"[", "{", "("}
             closes == ~inQuotes2 /\ char \in {"]", "}", ")"}
             splits == ~inQuotes2 /\ ~opens /\ ~closes /\ char = SYMBOL /\ depth = 0
         IN  splitLoop_ov(SYMBOL, str, i + 1,
                          IF splits THEN << >> ELSE Append(current, char),
                          depth + BoolToInt(opens) - BoolToInt(closes),
                          inQuotes2, quoteChar2,
                          IF splits THEN Append(result, Trim(current)) ELSE result)

split_ov(SYMBOL, str) == splitLoop_ov(SYMBOL, str, 1, << >>, 0, FALSE, "", << >>)

splitUnionTypes(impl, str) == IF impl = TP THEN splitAny("|", str) ELSE split_ov("|", str)
splitArrayElements(impl, str) == IF impl = TP THEN splitAny(",", str) ELSE split_ov(",", str)
splitObjectProperties(impl, str) == splitArrayElements(impl, str)

\* findPropertyColon (the same in both files): the 0-based index of the first
\* ":" outside quotes, braces, parentheses and brackets, or -1
RECURSIVE findPropertyColonLoop(_, _, _, _, _, _)
findPropertyColonLoop(str, i, depth, inQuotes, quoteChar, bracketDepth) ==
    IF i > Len(str) THEN -1
    ELSE LET char == str[i]
             isQuote == char \in {"\"", "'"}
             opening == ~inQuotes /\ isQuote
             closing == inQuotes /\ char = quoteChar
             inQuotes2 == IF opening THEN TRUE ELSE IF closing THEN FALSE ELSE inQuotes
             quoteChar2 == IF opening THEN char ELSE IF closing THEN "" ELSE quoteChar
             out == ~inQuotes2
         IN  IF out /\ char = ":" /\ depth = 0 /\ bracketDepth = 0 THEN i - 1
             ELSE findPropertyColonLoop(str, i + 1,
                      depth + BoolToInt(out /\ char \in {"{", "("}) - BoolToInt(out /\ char \in {"}", ")"}),
                      inQuotes2, quoteChar2,
                      bracketDepth + BoolToInt(out /\ char = "[") - BoolToInt(out /\ char = "]"))

findPropertyColon(str) == findPropertyColonLoop(str, 1, 0, FALSE, "", 0)

----------------------------------------------------------------------------
\* Own property keys of a JavaScript object.  An object is kept as its keys in
\* insertion order; OwnKeys gives the order Object.keys, Object.entries and a
\* rest pattern enumerate them in: the array-index keys ("0", "1", "42") first,
\* in ascending numeric order, then the other keys in insertion order.

\* A canonical array index: digits without a leading zero.  Keys of ten or
\* more digits (indices near 2^32) are outside the model's texts.
IsArrayIndex(key) ==
    /\ Len(key) >= 1
    /\ Len(key) <= 9
    /\ \A i \in 1..Len(key) : key[i] \in Digits
    /\ (Len(key) = 1 \/ key[1] # "0")

RECURSIVE SortByIndex(_)
SortByIndex(keys) ==
    IF Len(keys) = 0 THEN << >>
    ELSE LET m == MinOf({DigitsValue(keys[i]) : i \in 1..Len(keys)})
         IN  << CHOOSE k \in {keys[i] : i \in 1..Len(keys)} : DigitsValue(k) = m >>
               \o SortByIndex(SelectSeq(keys, LAMBDA k : DigitsValue(k) # m))

OwnKeys(keys) == SortByIndex(SelectSeq(keys, IsArrayIndex)) \o SelectSeq(keys, LAMBDA k : ~IsArrayIndex(k))

\* The position of key in keys, or 0
IndexOf(keys, key) == IF \E i \in 1..Len(keys) : keys[i] = key THEN MinOf({i \in 1..Len(keys) : keys[i] = key}) ELSE 0

----------------------------------------------------------------------------
\* Type nodes.  Every node is a record with the same fields:
\*   kind           "union", "array", "literalArray", "object", "literal", "primitive"
\*   type, optional of a primitive
\*   isHomogeneous  of an array
\*   sub            union: types; homogeneous array: << elementType >>;
\*                  other array: elementTypes; object with properties: the
\*                  property types; index signature: << keyType, valueType >>
\*   values         literalArray: values; literal: << value >>
\*   keys, opts     object with properties: the names, in insertion order, and
\*                  the optional flags
\*   isIndex        object: whether indexSignature is set

Node(kind, type, optional, isHomogeneous, sub, values, keys, opts, isIndex) ==
    [kind |-> kind, type |-> type, optional |-> optional, isHomogeneous |-> isHomogeneous,
     sub |-> sub, values |-> values, keys |-> keys, opts |-> opts, isIndex |-> isIndex]

UnionNode(types) == Node("union", << >>, FALSE, FALSE, types, << >>, << >>, << >>, FALSE)
ArrayNode(elementType) == Node("array", << >>, FALSE, TRUE, << elementType >>, << >>, << >>, << >>, FALSE)
TupleNode(elementTypes) == Node("array", << >>, FALSE, FALSE, elementTypes, << >>, << >>, << >>, FALSE)
LiteralArrayNode(values) == Node("literalArray", << >>, FALSE, FALSE, << >>, values, << >>, << >>, FALSE)
IndexNode(keyType, valueType) == Node("object", << >>, FALSE, FALSE, << keyType, valueType >>, << >>, << >>, << >>, TRUE)
PropsNode(keys, types, opts) == Node("object", << >>, FALSE, FALSE, types, << >>, keys, opts, FALSE)
LiteralNode(value) == Node("literal", << >>, FALSE, FALSE, << >>, << value >>, << >>, << >>, FALSE)
PrimitiveNode(type, optional) == Node("primitive", type, optional, FALSE, << >>, << >>, << >>, << >>, FALSE)

\* The value of one element of a literal array
LiteralArrayValue(el) ==
    LET trimmed == Trim(el)
    IN  IF IsNumericLiteral(trimmed) THEN NumberOf(trimmed)
        ELSE IF IsQuotedLiteral(trimmed) THEN Str(SliceInner(trimmed))
        ELSE Str(trimmed)

\* content.match(/^\s*\[(.+?):\s*(.+?)\]\s*:\s*(.+)$/): the set of << i, p, j, q >>
\* at which the expression can match: i the ":" after group 1, p the start of
\* group 2, j the "]" after it, q the start of group 3.  A "." matches no line
\* break.
NoLineBreak(c, a, b) == \A x \in a..b : c[x] \notin {"\n", "\r"}
AllWhitespace(c, a, b) == \A x \in a..b : c[x] \in Whitespace
IndexSignatureMatches(c) ==
    LET n == Len(c)
        first == {x \in 1..n : c[x] \notin Whitespace}
        a == IF first = {} THEN 0 ELSE MinOf(first)
    IN  IF a = 0 \/ c[a] # "[" THEN {}
        ELSE {m \in {x \in 1..n : c[x] = ":"} \X (1..n) \X {x \in 1..n : c[x] = "]"} \X (1..n) :
                /\ m[1] >= a + 2 /\ NoLineBreak(c, a + 1, m[1] - 1)
                /\ m[2] > m[1] /\ AllWhitespace(c, m[1] + 1, m[2] - 1)
                /\ m[3] > m[2] /\ NoLineBreak(c, m[2], m[3] - 1)
                /\ \E k \in (m[3] + 1)..n :
                      /\ c[k] = ":" /\ AllWhitespace(c, m[3] + 1, k - 1)
                      /\ m[4] > k /\ AllWhitespace(c, k + 1, m[4] - 1)
                /\ NoLineBreak(c, m[4], n)}

\* The match the backtracking finds first: group 1 lazy, \s* greedy, group 2
\* lazy, \s* greedy before group 3
IndexSignatureMatch(c) ==
    LET ms == IndexSignatureMatches(c)
        i == MinOf({m[1] : m \in ms})
        p == MaxOf({m[2] : m \in {x \in ms : x[1] = i}})
        j == MinOf({m[3] : m \in {x \in ms : x[1] = i /\ x[2] = p}})
        q == MaxOf({m[4] : m \in {x \in ms : x[1] = i /\ x[2] = p /\ x[3] = j}})
    IN  << SubSeq(c, p, j - 1), SubSeq(c, q, Len(c)) >>

----------------------------------------------------------------------------
\* parseType: the rules of parseType.parses, tried in order on the trimmed text

\* properties[cleanKey] = {type, optional} for each property text with a ":"
\* after its first character; a repeated name overwrites in place
RECURSIVE parseProperties(_, _, _, _, _)

RECURSIVE parseType(_, _)
parseType(impl, typeStr) ==
    LET t == Trim(typeStr)
        unionTypes == splitUnionTypes(impl, t)
        elementTypeStr0 == IF impl = TP /\ DropLast(t, 2) = << >> THEN S_array ELSE DropLast(t, 2)
        elementTypeStr == IF StartsWith(elementTypeStr0, << "(" >>) /\ EndsWith(elementTypeStr0, << ")" >>)
                          THEN SliceInner(elementTypeStr0) ELSE elementTypeStr0
        content == SliceInner(t)
        elements == splitArrayElements(impl, content)
        isLiteral == \A x \in 1..Len(elements) :
                        IsNumericLiteral(Trim(elements[x])) \/ IsQuotedLiteral(Trim(elements[x]))
    IN  \* union: string|number
        IF Includes(t, << "|" >>) /\ Len(unionTypes) > 1
        THEN UnionNode([x \in 1..Len(unionTypes) |-> parseType(impl, unionTypes[x])])
        \* array: string[]
        ELSE IF EndsWith(t, << "[", "]" >>)
        THEN ArrayNode(parseType(impl, elementTypeStr))
        \* (type): a rule of src/overloader.js only
        ELSE IF impl = OV /\ StartsWith(t, << "(" >>) /\ EndsWith(t, << ")" >>)
        THEN parseType(impl, content)
        \* [a,b,c]: a literal array or a heterogeneous array
        ELSE IF StartsWith(t, << "[" >>) /\ EndsWith(t, << "]" >>)
        THEN IF isLiteral
             THEN LiteralArrayNode([x \in 1..Len(elements) |-> LiteralArrayValue(elements[x])])
             ELSE TupleNode([x \in 1..Len(elements) |-> parseType(impl, elements[x])])
        \* {key:value}: an index signature or properties
        ELSE IF StartsWith(t, << "{" >>) /\ EndsWith(t, << "}" >>)
        THEN IF IndexSignatureMatches(content) # {}
             THEN IndexNode(parseType(impl, Trim(IndexSignatureMatch(content)[1])),
                            parseType(impl, Trim(IndexSignatureMatch(content)[2])))
             ELSE parseProperties(impl, splitObjectProperties(impl, content), << >>, << >>, << >>)
        \* literals: 1, "hello", true
        ELSE IF IsNumericLiteral(t) THEN LiteralNode(NumberOf(t))
        ELSE IF IsQuotedLiteral(t) THEN LiteralNode(Str(SliceInner(t)))
        ELSE IF t = S_true \/ t = S_false THEN LiteralNode(Bool(t = S_true))
        \* primitive: string, number, string?
        ELSE PrimitiveNode(t, EndsWith(t, << "?" >>))

parseProperties(impl, props, keys, types, opts) ==
    IF Len(props) = 0 THEN PropsNode(keys, types, opts)
    ELSE LET prop == props[1]
             colonIndex == findPropertyColon(prop)
             key == Trim(SubSeq(prop, 1, colonIndex))
             type == Trim(SubSeq(prop, colonIndex + 2, Len(prop)))
             isOptional == EndsWith(key, << "?" >>)
             cleanKey == IF isOptional THEN DropLast(key, 1) ELSE key
             at == IndexOf(keys, cleanKey)
             node == parseType(impl, type)
         IN  IF colonIndex > 0
             THEN IF at = 0
                  THEN parseProperties(impl, Tail(props), Append(keys, cleanKey),
                                       Append(types, node), Append(opts, isOptional))
                  ELSE parseProperties(impl, Tail(props), keys,
                                       [types EXCEPT ![at] = node], [opts EXCEPT ![at] = isOptional])
             ELSE parseProperties(impl, Tail(props), keys, types, opts)

----------------------------------------------------------------------------
\* matchesTypeRecursive.  A match gives a record
\*   r    the boolean returned (FALSE when err)
\*   err  whether a TypeError was thrown instead of returning
\*   a    the actual value after the match (src/overloader.js pushes undefined
\*        into an empty array it tests against a homogeneous array type)
\*   t    the type node after the match (src/overloader.js rewrites the type of
\*        an optional primitive node in place)

Outcome(r, err, a, t) == [r |-> r, err |-> err, a |-> a, t |-> t]

RECURSIVE matchesTypeRecursive(_, _, _)

\* typeInfo.types.some((t) => matchesTypeRecursive(actual, t)), from member i on
RECURSIVE someType(_, _, _, _)
someType(impl, actual, types, i) ==
    IF i > Len(types) THEN [r |-> FALSE, err |-> FALSE, a |-> actual, sub |-> types]
    ELSE LET m == matchesTypeRecursive(impl, actual, types[i])
             types2 == [types EXCEPT ![i] = m.t]
         IN  IF m.err \/ m.r THEN [r |-> m.r, err |-> m.err, a |-> m.a, sub |-> types2]
             ELSE someType(impl, m.a, types2, i + 1)

\* items.every((item, i) => matchesTypeRecursive(item, type of i)), from item i
\* on; with shared, every item is matched against types[1]
RECURSIVE everyItem(_, _, _, _, _)
everyItem(impl, items, types, shared, i) ==
    IF i > Len(items) THEN [r |-> TRUE, err |-> FALSE, e |-> items, sub |-> types]
    ELSE LET x == IF shared THEN 1 ELSE i
             m == matchesTypeRecursive(impl, items[i], types[x])
             items2 == [items EXCEPT ![i] = m.a]
             types2 == [types EXCEPT ![x] = m.t]
         IN  IF m.err \/ ~m.r THEN [r |-> FALSE, err |-> m.err, e |-> items2, sub |-> types2]
             ELSE everyItem(impl, items2, types2, shared, i + 1)

union(impl, actual, typeInfo) ==
    LET m == someType(impl, actual, typeInfo.sub, 1)
    IN  Outcome(m.r, m.err, m.a, [typeInfo EXCEPT !.sub = m.sub])

\* /array|any/.test(typeInfo.elementType.type): the type of a node that is
\* not a primitive is undefined, which the test reads as the text "undefined"
ElementTypeText(typeInfo) == IF typeInfo.sub[1].kind = "primitive" THEN typeInfo.sub[1].type ELSE S_undefined
TestArrayOrAny(text) == Includes(text, S_array) \/ Includes(text, S_any)

\* array without the test of the empty array: every() of no element is true
array_noEmptyTest(impl, actual, typeInfo) ==
    IF myTypeof(actual) # S_array THEN Outcome(FALSE, FALSE, actual, typeInfo)
    ELSE IF typeInfo.isHomogeneous
    THEN LET m == everyItem(impl, actual.e, typeInfo.sub, TRUE, 1)
         IN  Outcome(m.r, m.err, [actual EXCEPT !.e = m.e], [typeInfo EXCEPT !.sub = m.sub])
    ELSE IF Len(actual.e) # Len(typeInfo.sub) THEN Outcome(FALSE, FALSE, actual, typeInfo)
    ELSE LET m == everyItem(impl, actual.e, typeInfo.sub, FALSE, 1)
         IN  Outcome(m.r, m.err, [actual EXCEPT !.e = m.e], [typeInfo EXCEPT !.sub = m.sub])

\* array that rejects only the arrays longer than the list of element types
array_shorterAccepted(impl, actual, typeInfo) ==
    IF myTypeof(actual) # S_array THEN Outcome(FALSE, FALSE, actual, typeInfo)
    ELSE IF Len(actual.e) = 0 /\ ~typeInfo.isHomogeneous THEN Outcome(FALSE, TRUE, actual, typeInfo)
    ELSE IF Len(actual.e) = 0 /\ ~TestArrayOrAny(ElementTypeText(typeInfo)) THEN Outcome(FALSE, FALSE, actual, typeInfo)
    ELSE IF typeInfo.isHomogeneous
    THEN LET m == everyItem(impl, actual.e, typeInfo.sub, TRUE, 1)
         IN  Outcome(m.r, m.err, [actual EXCEPT !.e = m.e], [typeInfo EXCEPT !.sub = m.sub])
    ELSE IF Len(actual.e) > Len(typeInfo.sub) THEN Outcome(FALSE, FALSE, actual, typeInfo)
    ELSE LET m == everyItem(impl, actual.e, typeInfo.sub, FALSE, 1)
         IN  Outcome(m.r, m.err, [actual EXCEPT !.e = m.e], [typeInfo EXCEPT !.sub = m.sub])

\* array of src/TaskProcessor.js.  The empty-array test reads
\* typeInfo.elementType.type before it looks at isHomogeneous: a heterogeneous
\* node has no elementType, and reading .type of undefined throws a TypeError.
array(impl, actual, typeInfo) ==
    IF myTypeof(actual) # S_array THEN Outcome(FALSE, FALSE, actual, typeInfo)
    ELSE IF Len(actual.e) = 0 /\ ~typeInfo.isHomogeneous THEN Outcome(FALSE, TRUE, actual, typeInfo)
    ELSE IF Len(actual.e) = 0 /\ ~TestArrayOrAny(ElementTypeText(typeInfo)) THEN Outcome(FALSE, FALSE, actual, typeInfo)
    ELSE IF typeInfo.isHomogeneous
    THEN LET m == everyItem(impl, actual.e, typeInfo.sub, TRUE, 1)
         IN  Outcome(m.r, m.err, [actual EXCEPT !.e = m.e], [typeInfo EXCEPT !.sub = m.sub])
    ELSE IF Len(actual.e) # Len(typeInfo.sub) THEN Outcome(FALSE, FALSE, actual, typeInfo)
    ELSE LET m == everyItem(impl, actual.e, typeInfo.sub, FALSE, 1)
         IN  Outcome(m.r, m.err, [actual EXCEPT !.e = m.e], [typeInfo EXCEPT !.sub = m.sub])

\* array of src/overloader.js: an empty array gets undefined pushed into it
\* before its elements are tested against a homogeneous type
array_ov(impl, actual, typeInfo) ==
    IF myTypeof_ov(actual) # << "[", "]" >> THEN Outcome(FALSE, FALSE, actual, typeInfo)
    ELSE IF typeInfo.isHomogeneous
    THEN LET pushed == IF Len(actual.e) = 0 THEN << Undefined >> ELSE actual.e
             m == everyItem(impl, pushed, typeInfo.sub, TRUE, 1)
         IN  Outcome(m.r, m.err, [actual EXCEPT !.e = m.e], [typeInfo EXCEPT !.sub = m.sub])
    ELSE IF Len(actual.e) # Len(typeInfo.sub) THEN Outcome(FALSE, FALSE, actual, typeInfo)
    ELSE LET m == everyItem(impl, actual.e, typeInfo.sub, FALSE, 1)
         IN  Outcome(m.r, m.err, [actual EXCEPT !.e = m.e], [typeInfo EXCEPT !.sub = m.sub])

literalArray(impl, actual, typeInfo) ==
    Outcome(/\ IsArray(impl, actual)
            /\ Len(actual.e) = Len(typeInfo.values)
            /\ \A i \in 1..Len(actual.e) : StrictEquals(actual.e[i], typeInfo.values[i]),
            FALSE, actual, typeInfo)

literal(impl, actual, typeInfo) == Outcome(StrictEquals(actual, typeInfo.values[1]), FALSE, actual, typeInfo)

\* Object.entries(actual).every(([key, value]) => ...) of an index signature,
\* from the i-th key of order on: the key and the value are both matched before
\* the two results are combined
RECURSIVE everyEntry(_, _, _, _, _)
\* every() that matches the values and leaves the keys out
RECURSIVE everyEntry_keysIgnored(_, _, _, _, _)
everyEntry_keysIgnored(impl, actual, types, order, i) ==
    IF i > Len(order) THEN [r |-> TRUE, err |-> FALSE, a |-> actual, sub |-> types]
    ELSE LET at == IndexOf(actual.ks, order[i])
             vm == matchesTypeRecursive(impl, actual.e[at], types[2])
         IN  IF vm.err \/ ~vm.r
             THEN [r |-> FALSE, err |-> vm.err, a |-> [actual EXCEPT !.e[at] = vm.a], sub |-> << types[1], vm.t >>]
             ELSE everyEntry_keysIgnored(impl, [actual EXCEPT !.e[at] = vm.a], << types[1], vm.t >>, order, i + 1)

everyEntry(impl, actual, types, order, i) ==
    IF i > Len(order) THEN [r |-> TRUE, err |-> FALSE, a |-> actual, sub |-> types]
    ELSE LET at == IndexOf(actual.ks, order[i])
             km == matchesTypeRecursive(impl, Str(order[i]), types[1])
             vm == matchesTypeRecursive(impl, actual.e[at], types[2])
             types2 == IF km.err THEN << km.t, types[2] >> ELSE << km.t, vm.t >>
             actual2 == IF km.err THEN actual ELSE [actual EXCEPT !.e[at] = vm.a]
             err == km.err \/ vm.err
         IN  IF err \/ ~(km.r /\ vm.r) THEN [r |-> FALSE, err |-> err, a |-> actual2, sub |-> types2]
             ELSE everyEntry(impl, actual2, types2, order, i + 1)

\* actual.hasOwnProperty(key) throws a TypeError when the method is not
\* callable: hasOwnProperty is looked up on actual itself first, and an own
\* property of that name hides Object.prototype.hasOwnProperty.  (The values
\* of the model hold no function under that name.)
S_hasOwnProperty == << "h", "a", "s", "O", "w", "n", "P", "r", "o", "p", "e", "r", "t", "y" >>
hasOwnPropertyThrows(actual) ==
    /\ IndexOf(actual.ks, S_hasOwnProperty) # 0
    /\ actual.e[IndexOf(actual.ks, S_hasOwnProperty)].k # "function"

\* Object.keys(typeInfo.properties).every((key) => ...), from the i-th key of
\* order on
RECURSIVE everyProperty(_, _, _, _, _)
everyProperty(impl, actual, typeInfo, order, i) ==
    IF i > Len(order) THEN [r |-> TRUE, err |-> FALSE, a |-> actual, t |-> typeInfo]
    ELSE LET x == IndexOf(typeInfo.keys, order[i])
             at == IndexOf(actual.ks, order[i])
             hasProperty == at # 0
             m == matchesTypeRecursive(impl, actual.e[at], typeInfo.sub[x])
         IN  IF hasOwnPropertyThrows(actual) THEN [r |-> FALSE, err |-> TRUE, a |-> actual, t |-> typeInfo]
             ELSE IF typeInfo.opts[x] /\ ~hasProperty THEN everyProperty(impl, actual, typeInfo, order, i + 1)
             ELSE IF ~hasProperty THEN [r |-> FALSE, err |-> FALSE, a |-> actual, t |-> typeInfo]
             ELSE IF m.err \/ ~m.r
             THEN [r |-> FALSE, err |-> m.err, a |-> [actual EXCEPT !.e[at] = m.a],
                   t |-> [typeInfo EXCEPT !.sub[x] = m.t]]
             ELSE everyProperty(impl, [actual EXCEPT !.e[at] = m.a],
                                [typeInfo EXCEPT !.sub[x] = m.t], order, i + 1)

object(impl, actual, typeInfo) ==
    IF ~IsObject(impl, actual) THEN Outcome(FALSE, FALSE, actual, typeInfo)
    ELSE IF typeInfo.isIndex
    THEN LET m == everyEntry(impl, actual, typeInfo.sub, OwnKeys(actual.ks), 1)
         IN  Outcome(m.r, m.err, m.a, [typeInfo EXCEPT !.sub = m.sub])
    ELSE LET m == everyProperty(impl, actual, typeInfo, OwnKeys(typeInfo.keys), 1)
         IN  Outcome(m.r, m.err, m.a, m.t)

\* The type list of a primitive: "string?" reads as "string|undefined"
PrimitiveType(typeInfo) == IF typeInfo.optional THEN Trim(ReplaceFirstQuestion(typeInfo.type)) ELSE typeInfo.type

\* The test of a primitive without the wildcard
PrimitiveTest_noAny(type, actualType) ==
    LET types == SplitChar(type, "|")
    IN  \E i \in 1..Len(types) : types[i] = actualType

\* types.includes("any") || types.includes(actualType), types being type.split("|")
PrimitiveTest(type, actualType) ==
    LET types == SplitChar(type, "|")
    IN  \E i \in 1..Len(types) : types[i] = S_any \/ types[i] = actualType

\* primitive of src/TaskProcessor.js: the rewritten type is a local variable
primitive(impl, actual, typeInfo) ==
    Outcome(PrimitiveTest(PrimitiveType(typeInfo), myTypeof(actual)), FALSE, actual, typeInfo)

\* primitive of src/overloader.js: the rewritten type is stored in the node
primitive_ov(impl, actual, typeInfo) ==
    Outcome(PrimitiveTest(PrimitiveType(typeInfo), myTypeof_ov(actual)), FALSE, actual,
            [typeInfo EXCEPT !.type = PrimitiveType(typeInfo)])

matchesTypeRecursive(impl, actual, typeInfo) ==
    CASE typeInfo.kind = "union" -> union(impl, actual, typeInfo)
      [] typeInfo.kind = "array" -> IF impl = TP THEN array(impl, actual, typeInfo) ELSE array_ov(impl, actual, typeInfo)
      [] typeInfo.kind = "literalArray" -> literalArray(impl, actual, typeInfo)
      [] typeInfo.kind = "literal" -> literal(impl, actual, typeInfo)
      [] typeInfo.kind = "object" -> object(impl, actual, typeInfo)
      [] typeInfo.kind = "primitive" -> IF impl = TP THEN primitive(impl, actual, typeInfo) ELSE primitive_ov(impl, actual, typeInfo)
      \* matchesTypeRecursive[typeInfo.kind]?.(...) is undefined, which is falsy,
      \* when typeInfo is no node and has no kind
      [] OTHER -> Outcome(FALSE, FALSE, actual, typeInfo)

----------------------------------------------------------------------------
\* The pattern cache, matchesType and matchesSignature.  The cache is a
\* function from the pattern texts parsed so far to their nodes.

EmptyCache == [x \in {} |-> PrimitiveNode(<< >>, FALSE)]

\* parseType.cache is a plain object ({}), so parseType.cache[typePattern]
\* finds the properties every object inherits from Object.prototype as well:
\* for these names the lookup gives a function (or, for __proto__, the
\* prototype object), which is truthy and has no kind.
InheritedNames ==
    {<< "c", "o", "n", "s", "t", "r", "u", "c", "t", "o", "r" >>,
     S_hasOwnProperty,
     << "i", "s", "P", "r", "o", "t", "o", "t", "y", "p", "e", "O", "f" >>,
     << "p", "r", "o", "p", "e", "r", "t", "y", "I", "s", "E", "n", "u", "m", "e", "r", "a", "b", "l", "e" >>,
     << "t", "o", "L", "o", "c", "a", "l", "e", "S", "t", "r", "i", "n", "g" >>,
     << "t", "o", "S", "t", "r", "i", "n", "g" >>,
     << "v", "a", "l", "u", "e", "O", "f" >>,
     << "_", "_", "p", "r", "o", "t", "o", "_", "_" >>,
     << "_", "_", "d", "e", "f", "i", "n", "e", "G", "e", "t", "t", "e", "r", "_", "_" >>,
     << "_", "_", "d", "e", "f", "i", "n", "e", "S", "e", "t", "t", "e", "r", "_", "_" >>,
     << "_", "_", "l", "o", "o", "k", "u", "p", "G", "e", "t", "t", "e", "r", "_", "_" >>,
     << "_", "_", "l", "o", "o", "k", "u", "p", "S", "e", "t", "t", "e", "r", "_", "_" >>}
Inherited == Node("", << >>, FALSE, FALSE, << >>, << >>, << >>, << >>, FALSE)

\* parseType.cached(typePattern): the node and the cache after the lookup
cached(impl, cache, typePattern) ==
    IF typePattern \in InheritedNames
    THEN [node |-> Inherited, cache |-> cache]
    ELSE IF typePattern \in DOMAIN cache
    THEN [node |-> cache[typePattern], cache |-> cache]
    ELSE LET parsed == parseType(impl, typePattern)
         IN  [node |-> parsed, cache |-> (typePattern :> parsed) @@ cache]

\* matchesType(actual, typePattern): the cached node is the object the matcher
\* works on, so what the matcher writes into it stays in the cache
matchesTypeResult(c, typePattern, m) ==
    [r |-> m.r, err |-> m.err, a |-> m.a,
     cache |-> IF typePattern \in DOMAIN c.cache THEN [c.cache EXCEPT ![typePattern] = m.t] ELSE c.cache]
matchesTypeOf(impl, c, actual, typePattern) ==
    matchesTypeResult(c, typePattern, matchesTypeRecursive(impl, actual, c.node))
matchesType(impl, cache, actual, typePattern) ==
    matchesTypeOf(impl, cached(impl, cache, typePattern), actual, typePattern)

\* typePatterns.filter((pattern) => !pattern.includes("?")).length
requiredCount(typePatterns) == Cardinality({i \in 1..Len(typePatterns) : ~Includes(typePatterns[i], << "?" >>)})

\* for (let i = 0; i < actuals.length; i++) if (!matchesType(...)) return false
RECURSIVE matchesSignatureLoop(_, _, _, _, _)
\* One turn of the loop, m being the result of matchesType for argument i
matchesSignatureStep(impl, actuals, typePatterns, i, m) ==
    IF m.err \/ ~m.r
    THEN [r |-> FALSE, err |-> m.err, args |-> [actuals EXCEPT ![i] = m.a], cache |-> m.cache]
    ELSE matchesSignatureLoop(impl, m.cache, [actuals EXCEPT ![i] = m.a], typePatterns, i + 1)
matchesSignatureLoop(impl, cache, actuals, typePatterns, i) ==
    IF i > Len(actuals) THEN [r |-> TRUE, err |-> FALSE, args |-> actuals, cache |-> cache]
    ELSE matchesSignatureStep(impl, actuals, typePatterns, i,
                              matchesType(impl, cache, actuals[i], typePatterns[i]))

\* matchesSignature without the test of the required count
matchesSignature_noRequiredCount(impl, cache, actuals, typePatterns) ==
    IF Len(actuals) > Len(typePatterns) THEN [r |-> FALSE, err |-> FALSE, args |-> actuals, cache |-> cache]
    ELSE matchesSignatureLoop(impl, cache, actuals, typePatterns, 1)

matchesSignature(impl, cache, actuals, typePatterns) ==
    IF Len(actuals) < requiredCount(typePatterns) THEN [r |-> FALSE, err |-> FALSE, args |-> actuals, cache |-> cache]
    ELSE IF Len(actuals) > Len(typePatterns) THEN [r |-> FALSE, err |-> FALSE, args |-> actuals, cache |-> cache]
    ELSE matchesSignatureLoop(impl, cache, actuals, typePatterns, 1)

----------------------------------------------------------------------------
\* JSON.stringify of the argument list, for the message of the error

DigitChar(n) == CASE n = 0 -> "0" [] n = 1 -> "1" [] n = 2 -> "2" [] n = 3 -> "3" [] n = 4 -> "4"
                  [] n = 5 -> "5" [] n = 6 -> "6" [] n = 7 -> "7" [] n = 8 -> "8" [] n = 9 -> "9"

RECURSIVE NatToString(_)
NatToString(n) == IF n < 10 THEN << DigitChar(n) >> ELSE Append(NatToString(n \div 10), DigitChar(n % 10))

RECURSIVE Pow10(_)
Pow10(d) == IF d = 0 THEN 1 ELSE 10 * Pow10(d - 1)

RECURSIVE ZeroPad(_, _)
ZeroPad(s, width) == IF Len(s) >= width THEN s ELSE ZeroPad(<< "0" >> \o s, width)

\* String(number) for the numbers of the model (no exponent notation)
NumberToString(v) ==
    LET abs == IF v.n < 0 THEN 0 - v.n ELSE v.n
        int == NatToString(abs \div Pow10(v.d))
        frac == IF v.d = 0 THEN << >> ELSE << "." >> \o ZeroPad(NatToString(abs % Pow10(v.d)), v.d)
    IN  (IF v.n < 0 THEN << "-" >> ELSE << >>) \o int \o frac

RECURSIVE QuoteChars(_)
QuoteChars(s) ==
    IF Len(s) = 0 THEN << >>
    ELSE (CASE s[1] = "\"" -> << "\\", "\"" >>
            [] s[1] = "\\" -> << "\\", "\\" >>
            [] s[1] = "\n" -> << "\\", "n" >>
            [] s[1] = "\r" -> << "\\", "r" >>
            [] s[1] = "\t" -> << "\\", "t" >>
            [] OTHER -> << s[1] >>) \o QuoteChars(Tail(s))

QuoteString(s) == << "\"" >> \o QuoteChars(s) \o << "\"" >>

RECURSIVE Stringify(_)
\* The elements of an array: undefined and functions are written as null
RECURSIVE StringifyElements(_)
StringifyElements(e) ==
    IF Len(e) = 0 THEN << >>
    ELSE (IF e[1].k \in {"undefined", "function"} THEN S_null ELSE Stringify(e[1]))
           \o (IF Len(e) > 1 THEN << "," >> ELSE << >>) \o StringifyElements(Tail(e))

\* The properties of an object, in the order of its own keys: a property whose
\* value is undefined or a function is left out
RECURSIVE StringifyProperties(_, _, _)
StringifyProperties(v, order, first) ==
    IF Len(order) = 0 THEN << >>
    ELSE LET val == v.e[IndexOf(v.ks, order[1])]
         IN  IF val.k \in {"undefined", "function"} THEN StringifyProperties(v, Tail(order), first)
             ELSE (IF first THEN << >> ELSE << "," >>) \o QuoteString(order[1]) \o << ":" >>
                    \o Stringify(val) \o StringifyProperties(v, Tail(order), FALSE)

Stringify(v) ==
    CASE v.k = "null" -> S_null
      [] v.k = "number" -> NumberToString(v)
      [] v.k = "string" -> QuoteString(v.s)
      [] v.k = "boolean" -> IF v.n = 1 THEN S_true ELSE S_false
      [] v.k = "array" -> << "[" >> \o StringifyElements(v.e) \o << "]" >>
      [] v.k = "object" -> << "{" >> \o StringifyProperties(v, OwnKeys(v.ks), TRUE) \o << "}" >>

----------------------------------------------------------------------------
\* The dispatcher.  signatures is the registry: a sequence of [key, fn] in
\* insertion order.  In src/TaskProcessor.js it is an object (one entry per
\* key); in src/overloader.js it is a Set of [key, fn] arrays, each a new
\* object, so no two of them are ever the same element.

Entry(key, fn) == [key |-> key, fn |-> fn]
Keys(signatures) == [i \in 1..Len(signatures) |-> signatures[i].key]

\* The entries in the order overloade tries them.  src/TaskProcessor.js takes
\* "any" out and goes through Object.entries of the rest; src/overloader.js
\* goes through the Set.
entries(impl, signatures) ==
    IF impl = OV THEN signatures
    ELSE LET order == SelectSeq(OwnKeys(Keys(signatures)), LAMBDA k : k # S_any)
         IN  [i \in 1..Len(order) |-> signatures[IndexOf(Keys(signatures), order[i])]]

\* What a call does: the function it invokes (0: none) with the key it is
\* registered under and the arguments it receives, or the error it throws
\* ("Error": no matching signature, with its message), the caller's arguments
\* afterwards, and the cache afterwards; calls lists the functions invoked, in
\* order, and returned is the value the call returns.
Result(invoked, key, received, error, message, after, cache) ==
    [invoked |-> invoked, key |-> key, received |-> received, error |-> error,
     message |-> message, after |-> after, cache |-> cache, calls |-> << >>, returned |-> Undefined]

\* The registered functions: the even ones are asynchronous and return a
\* promise that is still pending, the odd ones return a value of their own
Pending(id) == Val("promise", id, 0, << >>, << >>, << >>)
Implementation(fn, args) == IF fn % 2 = 0 THEN Pending(fn) ELSE Arr(<< Num(fn) >>)

\* return fn(...args)
invoke(fn, key, args, cache) ==
    [Result(fn, key, args, "", << >>, args, cache) EXCEPT !.calls = << fn >>, !.returned = Implementation(fn, args)]

ErrorMessage(args) == Stringify(Arr(args))

RECURSIVE overloadeLoop(_, _, _, _, _, _)
\* One turn of the loop, m being the result of matchesSignature for entry i
overloadeStep(impl, signatures, list, i, m) ==
    IF m.err THEN Result(0, << >>, << >>, "TypeError", << >>, m.args, m.cache)
    ELSE IF m.r THEN invoke(list[i].fn, list[i].key, m.args, m.cache)
    ELSE overloadeLoop(impl, signatures, list, m.cache, m.args, i + 1)
overloadeLoop(impl, signatures, list, cache, args, i) ==
    IF i > Len(list)
    THEN IF impl = TP /\ IndexOf(Keys(signatures), S_any) # 0
         THEN invoke(signatures[IndexOf(Keys(signatures), S_any)].fn, S_any, args, cache)
         ELSE Result(0, << >>, << >>, "Error", ErrorMessage(args), args, cache)
    ELSE IF impl = OV /\ list[i].key = S_any
    THEN invoke(list[i].fn, list[i].key, args, cache)
    ELSE overloadeStep(impl, signatures, list, i,
                       matchesSignature(impl, cache, args, SplitChar(list[i].key, "-")))

\* A dispatcher that awaits what the function returns
overloade_awaits(impl, signatures, cache, args) ==
    LET res == overloadeLoop(impl, signatures, entries(impl, signatures), cache, args, 1)
    IN  [res EXCEPT !.returned = IF res.returned.k = "promise" THEN Undefined ELSE res.returned]

overloade(impl, signatures, cache, args) == overloadeLoop(impl, signatures, entries(impl, signatures), cache, args, 1)

\* The key add stores the function under
signatureKey(impl, patterns) ==
    IF impl = TP THEN JoinChar([i \in 1..Len(patterns) |-> RemoveWhitespace(patterns[i])], "-")
    ELSE JoinChar(patterns, "-")

\* add(...patterns, fn): this.signatures[key] = fn in src/TaskProcessor.js,
\* this.signatures.add([key, fn]) in src/overloader.js
add(impl, signatures, patterns, fn) ==
    LET key == signatureKey(impl, patterns)
        at == IndexOf(Keys(signatures), key)
    IN  IF impl = TP /\ at # 0 THEN [signatures EXCEPT ![at] = Entry(key, fn)]
        ELSE Append(signatures, Entry(key, fn))

----------------------------------------------------------------------------
\* The texts and values the model runs the code on

T_numberOpt == << "n", "u", "m", "b", "e", "r", "?" >>
T_stringOpt == << "s", "t", "r", "i", "n", "g", "?" >>
T_one == << "1" >>
T_quotedA == << "\"", "a", "\"" >>
T_stringArr == << "s", "t", "r", "i", "n", "g", "[", "]" >>
T_numberArr == << "n", "u", "m", "b", "e", "r", "[", "]" >>
T_booleanArr == << "b", "o", "o", "l", "e", "a", "n", "[", "]" >>
T_anyArr == << "a", "n", "y", "[", "]" >>
T_arrayArr == << "a", "r", "r", "a", "y", "[", "]" >>
T_emptyArr == << "[", "]" >>
T_companyArr == << "c", "o", "m", "p", "a", "n", "y", "[", "]" >>
T_anyOptArr == << "a", "n", "y", "?", "[", "]" >>
T_stringOptArr == << "s", "t", "r", "i", "n", "g", "?", "[", "]" >>
T_unionArr == << "(", "s", "t", "r", "i", "n", "g", "|", "a", "n", "y", ")", "[", "]" >>
T_anyArrArr == << "a", "n", "y", "[", "]", "[", "]" >>
T_tupleNested == << "[", "[", "n", "u", "m", "b", "e", "r", ",", "s", "t", "r", "i", "n", "g", "]", ",", "a", "n", "y", "]" >>
T_tupleSpaced == << "[", " ", "n", "u", "m", "b", "e", "r", " ", ",", " ", "s", "t", "r", "i", "n", "g", " ", "]" >>
T_literalArr == << "[", "1", ",", "\"", "a", "\"", "]" >>
T_union == << "s", "t", "r", "i", "n", "g", "|", "n", "u", "m", "b", "e", "r" >>

\* Bounds of the model
MaxArrayLen == 3
MaxTuple == 2
MaxArgs == 3
MaxPatterns == 2
MaxAdds == 3

\* The sequences over S of length at most n
SeqsUpTo(S, n) == UNION {[1..k -> S] : k \in 0..n}

\* Values: scalars, the arrays of numbers and strings up to MaxArrayLen, and
\* arrays that hold undefined or another array
Scalars == {Undefined, Null, Num(1), Num(2), Str(<< "a" >>), Str(<< "x" >>), Bool(TRUE), Func(1),
            Obj(<< >>, << >>)}
Arrays == {Arr(e) : e \in SeqsUpTo({Num(1), Str(<< "a" >>), Num(2)}, MaxArrayLen)}
NestedArrays == {Arr(<< Undefined >>), Arr(<< Arr(<< >>) >>), Arr(<< Arr(<< Num(1), Str(<< "a" >>) >>), Null >>),
                 Arr(<< Arr(<< >>), Num(1) >>)}
\* Records: with and without the properties a and b, with another property,
\* one with a property named hasOwnProperty, and one that holds an array
Records ==
    {Obj(<< << "a" >> >>, << Num(1) >>),
     Obj(<< << "a" >> >>, << Str(<< "x" >>) >>),
     Obj(<< << "b" >> >>, << Str(<< "x" >>) >>),
     Obj(<< << "a" >>, << "b" >> >>, << Num(1), Num(2) >>),
     Obj(<< << "a" >>, << "b" >> >>, << Num(1), Str(<< "x" >>) >>),
     Obj(<< << "b" >>, << "a" >> >>, << Undefined, Num(1) >>),
     Obj(<< << "a" >>, << "c" >> >>, << Num(1), Bool(TRUE) >>),
     Obj(<< << "a" >>, S_hasOwnProperty >>, << Num(1), Num(1) >>),
     Obj(<< << "a" >> >>, << Arr(<< Num(1) >>) >>)}
Values == Scalars \cup Arrays \cup NestedArrays \cup Records

\* The text of the heterogeneous array pattern [T1,...,Tn]
TupleText(ts) == << "[" >> \o JoinChar(ts, ",") \o << "]" >>
TupleTypes == {S_number, S_string, S_any, T_numberOpt}
TupleLists == SeqsUpTo(TupleTypes, MaxTuple) \ {<< >>}

\* Object patterns with declared properties: a property is << name, type, optional >>
Property(name, type, optional) == << name, type, optional >>
PropertyText(d) == d[1] \o (IF d[3] THEN << "?" >> ELSE << >>) \o << ":" >> \o d[2]
ObjectText(ds) == << "{" >> \o JoinChar([i \in 1..Len(ds) |-> PropertyText(ds[i])], ",") \o << "}" >>
PropertyLists ==
    {<< >>,
     << Property(<< "a" >>, S_number, FALSE) >>,
     << Property(<< "a" >>, S_number, TRUE) >>,
     << Property(<< "a" >>, S_number, FALSE), Property(<< "b" >>, S_string, TRUE) >>,
     << Property(<< "b" >>, S_string, FALSE), Property(<< "a" >>, S_any, FALSE) >>}

\* The element types of the homogeneous array patterns T[]
ElementTypes == {S_string, S_number, S_boolean, S_any, S_array, << "c", "o", "m", "p", "a", "n", "y" >>,
                 T_stringOpt, << "a", "n", "y", "?" >>, T_anyArr, << "(", "s", "t", "r", "i", "n", "g", "|", "a", "n", "y", ")" >>}
ArrayText(t) == t \o << "[", "]" >>

\* Names that are no runtime kind: a misspelled one, one in another case, and
\* the misspelled one with the ? marker
T_strng == << "s", "t", "r", "n", "g" >>
T_Number == << "N", "u", "m", "b", "e", "r" >>
T_strngOpt == << "s", "t", "r", "n", "g", "?" >>
Misspelled == {T_strng, T_Number, T_strngOpt}

\* The optional primitive K? of every name K that myTypeof of
\* src/TaskProcessor.js gives a value other than undefined
RuntimeKinds == {S_string, S_number, S_boolean, S_array, S_object, S_Function, S_null}
OptionalText(K) == K \o << "?" >>

\* Parenthesized patterns (T): alone, as the first member of a union and as
\* the element type of an array pattern
GroupText(T) == << "(" >> \o T \o << ")" >>
UnionText(T, U) == T \o << "|" >> \o U
GroupTypes == {S_string, S_number, S_any, T_numberOpt, T_union}
GroupPatterns ==
    {GroupText(T) : T \in GroupTypes}
      \cup {UnionText(GroupText(T), S_boolean) : T \in GroupTypes}
      \cup {ArrayText(GroupText(T)) : T \in GroupTypes}

\* Index-signature object patterns {[k:K]:V}
IndexText(K, V) == << "{", "[", "k", ":" >> \o K \o << "]", ":" >> \o V \o << "}" >>
KeyTypes == {S_string, S_number, S_any, T_quotedA}
ValueTypes == {S_number, S_any, T_union, T_numberArr}

\* A primitive pattern with two ? characters
T_stringOptOpt == << "s", "t", "r", "i", "n", "g", "?", "?" >>

Patterns ==
    {S_any, S_number, S_string, S_boolean, S_array, S_object, S_undefined, T_numberOpt, T_stringOpt,
     T_one, T_quotedA, S_true, T_emptyArr, T_tupleNested, T_tupleSpaced, T_literalArr, T_union}
      \cup {ArrayText(t) : t \in ElementTypes}
      \cup {TupleText(ts) : ts \in TupleLists}
      \cup {ObjectText(ds) : ds \in PropertyLists}
      \cup Misspelled
      \cup {OptionalText(K) : K \in RuntimeKinds}
      \cup GroupPatterns
      \cup {T_stringOptOpt}
      \cup {IndexText(K, V) : K \in KeyTypes, V \in ValueTypes}

\* Argument lists and pattern lists for matchesSignature
SignatureArgs == SeqsUpTo({Num(1), Str(<< "x" >>), Undefined}, MaxArgs)
SignaturePatterns == SeqsUpTo({S_number, T_numberOpt, S_string, T_strng, T_strngOpt}, MaxPatterns)

\* The signatures registered with add, and the argument lists of the calls
Signatures ==
    {<< S_number, S_number >>, << S_string, S_number >>, << S_any >>, << S_number >>, << T_one >>,
     << S_number, T_numberOpt >>, << TupleText(<< S_number, S_string >>) >>, << T_stringArr >>}
CallArgs ==
    {<< >>, << Num(1) >>, << Num(1), Num(2) >>, << Str(<< "x" >>), Num(2) >>,
     << Str(<< "x" >>), Str(<< "y" >>) >>, << Num(1), Num(2), Num(1) >>, << Arr(<< >>) >>,
     << Arr(<< Num(1), Str(<< "a" >>) >>) >>}

----------------------------------------------------------------------------
\* The state

VARIABLES
    impl,        \* the file whose overloader runs
    signatures,  \* the registry of the dispatcher
    second,      \* the registry of a second dispatcher, made by another overloader()
    cache,       \* parseType.cache
    registered,  \* the pattern lists of the add calls made so far, in order: the
                 \* i-th add registers function i
    last,        \* the last operation: its inputs and what it did
    run          \* the task runner: the state of one runTasks call

vars == << impl, signatures, second, cache, registered, last, run >>

\* The task runner before runTasks is called
Idle == [pc |-> "idle"]

Last(op, args, pats, invoked, key, received, error, message, after, result) ==
    [op |-> op, args |-> args, pats |-> pats, invoked |-> invoked, key |-> key, received |-> received,
     error |-> error, message |-> message, after |-> after, result |-> result,
     calls |-> << >>, returned |-> Undefined]

Nothing == Last("none", << >>, << >>, 0, << >>, << >>, "", << >>, << >>, FALSE)

\* A new dispatcher: overloader() returns overloade with an empty registry
Init ==
    /\ impl \in Impls
    /\ signatures = << >>
    /\ second = << >>
    /\ run = Idle
    /\ cache = EmptyCache
    /\ registered = << >>
    /\ last = Nothing

\* dispatcher.add(...patterns, fn) with a function not registered before
Add(patterns) ==
    /\ Len(registered) < MaxAdds
    /\ signatures' = add(impl, signatures, patterns, Len(registered) + 1)
    /\ registered' = Append(registered, patterns)
    /\ last' = Last("add", << >>, patterns, 0, signatureKey(impl, patterns), << >>, "", << >>, << >>, FALSE)
    /\ UNCHANGED << impl, second, cache, run >>

\* dispatcher(...args)
Called(args, res) ==
    /\ cache' = res.cache
    /\ last' = [Last("call", args, << >>, res.invoked, res.key, res.received, res.error,
                     res.message, res.after, res.invoked # 0)
                    EXCEPT !.calls = res.calls, !.returned = res.returned]
    /\ UNCHANGED << impl, signatures, second, registered, run >>

Call(args) == Called(args, overloade(impl, signatures, cache, args))

Next ==
    \/ \E patterns \in Signatures : Add(patterns)
    \/ \E args \in CallArgs : Call(args)

Spec == Init /\ [][Next]_vars

----------------------------------------------------------------------------
\* A dispatcher whose patterns are written with whitespace, around the pattern
\* and inside it

T_quotedAB == << "\"", "a", " ", "b", "\"" >>
T_quotedAb == << "\"", "a", "b", "\"" >>
T_numberSpaced == << " ", "n", "u", "m", "b", "e", "r", " " >>
SpacedSignatures == {<< T_quotedAB >>, << T_quotedAb >>, << T_numberSpaced >>, << S_string >>, << T_tupleSpaced >>}
SpacedArgs ==
    {<< Str(<< "a", " ", "b" >>) >>, << Str(<< "a", "b" >>) >>, << Num(1) >>, << Str(<< "x" >>) >>,
     << Arr(<< Num(1), Str(<< "a" >>) >>) >>}

NextSpaced ==
    \/ \E patterns \in SpacedSignatures : Add(patterns)
    \/ \E args \in SpacedArgs : Call(args)

SpecSpaced == Init /\ [][NextSpaced]_vars

----------------------------------------------------------------------------
\* A dispatcher whose signatures try the key: no pattern at all, a ? inside a
\* pattern, and the separator - inside a pattern

T_optionalA == ObjectText(<< Property(<< "a" >>, S_number, TRUE) >>)
T_minusOne == << "-", "1" >>
T_quotedDash == << "\"", "a", "-", "b", "\"" >>
KeySignatures ==
    {<< >>, << T_optionalA >>, << T_minusOne >>, << T_quotedDash >>, << S_number, T_minusOne >>, << S_number >>}
KeyArgs ==
    {<< >>, << Num(-1) >>, << Str(<< "a", "-", "b" >>) >>, << Obj(<< >>, << >>) >>,
     << Obj(<< << "a" >> >>, << Num(1) >>) >>, << Num(1), Num(-1) >>, << Num(1) >>}

NextKeys ==
    \/ \E patterns \in KeySignatures : Add(patterns)
    \/ \E args \in KeyArgs : Call(args)

SpecKeys == Init /\ [][NextKeys]_vars

----------------------------------------------------------------------------
\* Two dispatchers, each made by its own overloader(): each has its own
\* registry, and parseType.cache is the one of the module

MaxSecond == 2
TwoSignatures == {<< T_stringOptOpt >>, << T_numberOpt >>, << S_number >>}
TwoArgs == {<< >>, << Undefined >>, << Num(1) >>, << Str(<< "x" >>) >>}

\* second.add(...patterns, fn)
AddSecond(patterns) ==
    /\ Len(second) < MaxSecond
    /\ second' = add(impl, second, patterns, Len(second) + 1)
    /\ last' = Last("add2", << >>, patterns, 0, signatureKey(impl, patterns), << >>, "", << >>, << >>, FALSE)
    /\ UNCHANGED << impl, signatures, cache, registered, run >>

\* second(...args)
CalledSecond(args, res) ==
    /\ cache' = res.cache
    /\ last' = [Last("call2", args, << >>, res.invoked, res.key, res.received, res.error,
                     res.message, res.after, res.invoked # 0)
                    EXCEPT !.calls = res.calls, !.returned = res.returned]
    /\ UNCHANGED << impl, signatures, second, registered, run >>

CallSecond(args) == CalledSecond(args, overloade(impl, second, cache, args))

NextTwo ==
    \/ \E patterns \in TwoSignatures : Add(patterns)
    \/ \E args \in TwoArgs : Call(args)
    \/ \E patterns \in TwoSignatures : AddSecond(patterns)
    \/ \E args \in TwoArgs : CallSecond(args)

SpecTwo == Init /\ [][NextTwo]_vars

----------------------------------------------------------------------------
\* matchesType and matchesSignature as functions: the inputs are drawn in the
\* initial state and the function is applied to them, once or again (the
\* cache stays; the caller passes the same inputs anew).

MatchInputs == {<< << v >>, << p >> >> : v \in Values, p \in Patterns}
SignatureInputs == SignatureArgs \X SignaturePatterns

InitMatch ==
    /\ impl \in Impls
    /\ signatures = << >>
    /\ second = << >>
    /\ run = Idle
    /\ cache = EmptyCache
    /\ registered = << >>
    /\ \E in \in MatchInputs \cup SignatureInputs :
          last = Last("input", in[1], in[2], 0, << >>, << >>, "", << >>, << >>, FALSE)

\* The state after the function named op returned or threw m
Matched(op, m, after) ==
    /\ cache' = m.cache
    /\ last' = Last(op, last.args, last.pats, 0, << >>, << >>,
                    IF m.err THEN "TypeError" ELSE "", << >>, after, m.r)
    /\ UNCHANGED << impl, signatures, second, registered, run >>

MatchedType(m) == Matched("matchesType", m, << m.a >>)
MatchedSignature(m) == Matched("matchesSignature", m, m.args)

MatchesType ==
    /\ last.op \in {"input", "matchesType"}
    /\ << last.args, last.pats >> \in MatchInputs
    /\ MatchedType(matchesType(impl, cache, last.args[1], last.pats[1]))

MatchesSignature ==
    /\ last.op \in {"input", "matchesSignature"}
    /\ << last.args, last.pats >> \in SignatureInputs
    /\ MatchedSignature(matchesSignature(impl, cache, last.args, last.pats))

NextMatch == MatchesType \/ MatchesSignature

SpecMatch == InitMatch /\ [][NextMatch]_vars

----------------------------------------------------------------------------
\* parseType and parseType.cached as functions of the pattern text: the text is
\* drawn in the initial state and parsed, once or again

\* Every text of up to MaxText characters among the separators, brackets and
\* quotes the scanners look at, a letter, a blank and the ? marker; and some
\* longer texts, well-formed and not
MaxText == 3
T_stringOrNumberArr == << "s", "t", "r", "i", "n", "g", "|", "n", "u", "m", "b", "e", "r", "[", "]" >>
ParseAlphabet == {"|", "[", "]", "{", "}", "(", ")", ",", ":", "\"", "a", " ", "?"}
LongTexts ==
    {<< "c", "o", "n", "s", "t", "r", "u", "c", "t", "o", "r" >>,
     << "t", "o", "S", "t", "r", "i", "n", "g" >>,
     << "_", "_", "p", "r", "o", "t", "o", "_", "_" >>,
     << "s", "t", "r", "i", "n", "g" >>,
     << "s", "t", "r", "i", "n", "g", "?" >>,
     T_stringOrNumberArr,
     << "(", "s", "t", "r", "i", "n", "g", "|", "n", "u", "m", "b", "e", "r", ")", "[", "]" >>,
     << "{", "a", ":", "s", "t", "r", "i", "n", "g", "|", "n", "u", "m", "b", "e", "r", "}" >>,
     << "\"", "a", "|", "b", "\"" >>,
     << "[", "1", ",", "\"", "a", "\"", "]" >>,
     << "{", "[", "k", ":", "s", "t", "r", "i", "n", "g", "]", ":", "n", "u", "m", "b", "e", "r", "}" >>,
     << "[", "s", "t", "r", "i", "n", "g", ",", "n", "u", "m", "b", "e", "r" >>,
     << "{", "a", ":", "s", "t", "r", "i", "n", "g" >>,
     << "s", "t", "r", "i", "n", "g", "|" >>,
     << "|", "|", "|" >>,
     << ",", ",", "," >>,
     << "\"", "u", "n", "c", "l", "o", "s", "e", "d" >>,
     << "(", "a", "|", "b", ")" >>,
     << "[", "a", "|", "b", "]" >>,
     << "{", "a", ":", "b", "|", "c", "}" >>,
     << "(", "s", "t", "r", "i", "n", "g", ")" >>,
     << "\"", "(", "\"", "|", "a" >>}
ParseTexts == SeqsUpTo(ParseAlphabet, MaxText) \cup LongTexts

InitParse ==
    /\ impl \in Impls
    /\ signatures = << >>
    /\ second = << >>
    /\ run = Idle
    /\ cache = EmptyCache
    /\ registered = << >>
    /\ \E text \in ParseTexts :
          last = Last("text", << >>, << text >>, 0, << >>, << >>, "", << >>, << >>, FALSE)

\* The state after the function named op returned node
Parsed(op, node, after) ==
    /\ cache' = after
    /\ last' = Last(op, << >>, last.pats, 0, << >>, << >>, "", << >>, << >>, node)
    /\ UNCHANGED << impl, signatures, second, registered, run >>

ParsedCached(c) == Parsed("cached", c.node, c.cache)

\* parseType(typeStr)
ParseType ==
    /\ last.op \in {"text", "parseType", "cached"}
    /\ Parsed("parseType", parseType(impl, last.pats[1]), cache)

\* parseType.cached(typePattern)
Cached ==
    /\ last.op \in {"text", "parseType", "cached"}
    /\ ParsedCached(cached(impl, cache, last.pats[1]))

NextParse == ParseType \/ Cached

SpecParse == InitParse /\ [][NextParse]_vars

----------------------------------------------------------------------------
\* The task runner: runTasks of the class TaskProcessor, which the repository
\* holds in three files. JavaScript runs a function from one await to the
\* next without interruption, so a step of the runner is one iteration of its
\* loop, taken while no task can settle, and a task settles (with the callbacks
\* chained on its promise) only while the runner is suspended at an await.

MaxTasks == 3
MaxLimit == 3
MaxRetry == 2

RunnerTP == "src/TaskProcessor.js"
RunnerPart == "src/unnamed/part_002"
RunnerLower == "src/taskProcessor.js"
Runners == {RunnerTP, RunnerPart, RunnerLower}

\* How an execution of a task ends: it returns, it throws, it calls cancel
\* (stop in src/taskProcessor.js), abort (stopAll there), or halt and returns
Outcomes == {"fulfil", "fail", "cancel", "abort", "halt"}
Fulfilling == {"fulfil", "halt"}

dispatchers == << impl, signatures, second, cache, registered, last >>

\* The execution x has settled
Settled(r, x) == r.execs[x].state # "running"

\* The executions of r that have been started and have not settled
Running(r) == {x \in 1..Len(r.execs) : ~Settled(r, x)}

\* The awaits at which the runner is suspended
Suspended == {"race", "wait", "allSettled", "delay", "collect", "returned", "threw"}

\* this.#results[i] = p: the array grows, with holes, up to the index
setResult(results, i, x) ==
    IF i <= Len(results) THEN [results EXCEPT ![i] = x]
    ELSE results \o [k \in 1..(i - Len(results) - 1) |-> 0] \o << x >>

\* const p = Promise.resolve().then(task); const e = p.then(...); executing.add(e)
started(r, i) ==
    [r EXCEPT !.execs = Append(@, [task |-> i, round |-> r.round, state |-> "running"]),
              !.executing = @ \cup {Len(r.execs) + 1},
              !.results = IF r.file = RunnerTP THEN @
                          ELSE setResult(@, i, Len(r.execs) + 1)]

\* executing.size >= concurrencyLimit && (await Promise.race(executing)...):
\* the race is over a copy of executing; a member that has settled already
\* settles it at once (in src/TaskProcessor.js e fulfils after the catch, in
\* the other files e rejects with the task). Without the await the loop goes
\* on: if (this.#shouldStopAll) break in src/TaskProcessor.js
awaited(r) ==
    IF Cardinality(r.executing) >= r.limit
    THEN [r EXCEPT !.pc = "race", !.snapshot = r.executing,
                   !.race = IF \A x \in r.executing : ~Settled(r, x) THEN "none"
                            ELSE IF r.file = RunnerTP THEN "fulfilled" ELSE "rejected"]
    ELSE IF r.file = RunnerTP /\ r.shouldStopAll THEN [r EXCEPT !.i = r.n + 1]
    ELSE [r EXCEPT !.i = @ + 1]

\* resolve(v) of the round's Promise.withResolvers(): the first call decides
resolve(r, v) ==
    IF r.promise = "pending" THEN [r EXCEPT !.promise = IF v THEN "true" ELSE "false"] ELSE r

\* checkCompletion of src/TaskProcessor.js
checkCompletion(r) ==
    IF r.shouldStopAll THEN resolve(r, TRUE)
    ELSE IF Cardinality(r.fulfilled) + Cardinality(r.pending \cup r.failed) >= r.n
    THEN resolve(r, Cardinality(r.fulfilled) + Cardinality(r.failed) >= r.n)
    ELSE r

\* this.#results.filter((_, index) => count.has(index))
filtered(results, count) ==
    SelectSeq([k \in 1..Len(results) |-> IF k \in count THEN results[k] ELSE 0],
              LAMBDA x : x # 0)

\* The finally callback of src/unnamed/part_002 for a task of round rd, whose
\* count and resolve are those of that round
finally(r, rd, count) ==
    IF r.shouldStopAll
    THEN [r EXCEPT !.count[rd] = count, !.results = filtered(@, count),
                   !.promise = IF rd = r.round /\ @ = "pending" THEN "true" ELSE @]
    ELSE IF Cardinality(count) = Len(r.results) /\ rd = r.round
    THEN resolve([r EXCEPT !.count[rd] = count],
                 Cardinality(r.fulfilled) + Cardinality(r.failed) >= r.n)
    ELSE [r EXCEPT !.count[rd] = count]

\* The callbacks on the promise of execution x when its task ends with o:
\* then (on fulfilment only), catch, and the calls the task made before
settled(r, x, i, o) ==
    [r EXCEPT !.execs[x].state = IF o \in Fulfilling THEN "fulfilled"
                                 ELSE IF o = "cancel" THEN "cancelled" ELSE "rejected",
              !.race = IF r.pc = "race" /\ x \in r.snapshot /\ @ = "none"
                       THEN IF r.file = RunnerTP \/ o \in Fulfilling THEN "fulfilled" ELSE "rejected"
                       ELSE @,
              !.shouldStopAll = @ \/ o \in {"abort", "halt"},
              !.executing = IF o \in Fulfilling THEN @ \ {x} ELSE @,
              !.fulfilled = IF o \in Fulfilling THEN @ \cup {i} ELSE @,
              !.pending = IF r.file # RunnerTP THEN @
                          ELSE IF o \in Fulfilling THEN @ \ {i} ELSE @ \cup {i},
              !.failed = IF o # "cancel" THEN @
                         ELSE IF r.file = RunnerTP THEN @ \cup {i}
                         ELSE IF r.file = RunnerPart THEN @ \cup {r.stop}
                         ELSE @,
              !.stopCount = IF o = "cancel" /\ r.file = RunnerLower THEN @ + 1 ELSE @]

\* #resolvePromises
resolvePromises(r) ==
    IF r.file = RunnerTP
    THEN [r EXCEPT !.pc = "returned",
                   !.result = [fulfilled |-> r.fulfilled, rejected |-> r.pending]]
    ELSE IF r.file = RunnerPart /\ r.results = << >>
    THEN [r EXCEPT !.pc = "returned"]
    ELSE [r EXCEPT !.pc = "collect"]

\* The rest of the body of the while loop of runTasks, and its test when no
\* retry is left: if (isFulfilled) break; maxRetry && (await this.delay(waitTime))
roundOver(r, isFulfilled) ==
    IF isFulfilled \/ r.maxRetry = 0 THEN resolvePromises(r)
    ELSE [r EXCEPT !.pc = "delay"]

\* One iteration of the for loop of #executeTasksWithLimit, up to its await
iterate(r) ==
    IF r.file = RunnerTP
    THEN IF r.i \in r.fulfilled \cup r.failed THEN [r EXCEPT !.i = @ + 1]
         ELSE awaited(started(r, r.i))
    ELSE IF r.file = RunnerPart
    THEN IF r.i \in r.fulfilled \cup r.failed
         THEN [r EXCEPT !.stop = r.i, !.count[r.round] = @ \cup {r.i}, !.i = @ + 1]
         ELSE awaited(started([r EXCEPT !.stop = r.i], r.i))
    ELSE IF r.shouldStopAll THEN roundOver(r, FALSE)
    ELSE IF r.i \in r.fulfilled THEN [r EXCEPT !.i = @ + 1]
    ELSE awaited(started(r, r.i))

\* Every promise of this.#results has settled
allSettled(r) ==
    \A k \in 1..Len(r.results) : r.results[k] # 0 => Settled(r, r.results[k])

\* The tasks whose promise in this.#results is in one of the states
reported(r, states) ==
    {r.execs[r.results[k]].task : k \in {j \in 1..Len(r.results) :
        r.results[j] # 0 /\ r.execs[r.results[j]].state \in states}}

\* runTasks({tasks, concurrencyLimit, maxRetry}) up to the first iteration of
\* its first round: the state is initialized and maxRetry-- has been taken
InitRun ==
    /\ impl = TP
    /\ signatures = << >>
    /\ second = << >>
    /\ cache = EmptyCache
    /\ registered = << >>
    /\ last = Nothing
    /\ \E file \in Runners, n \in 1..MaxTasks, limit \in 1..MaxLimit, maxRetry \in 1..MaxRetry :
        run = [file |-> file, n |-> n, limit |-> limit, retries |-> maxRetry,
               maxRetry |-> maxRetry - 1, round |-> 1, pc |-> "loop", i |-> 1,
               execs |-> << >>, executing |-> {}, snapshot |-> {}, race |-> "none",
               promise |-> "pending", fulfilled |-> {}, pending |-> {}, failed |-> {},
               results |-> << >>, count |-> [rd \in 1..MaxRetry |-> {}], stop |-> 0,
               stopCount |-> 0, shouldStopAll |-> FALSE,
               result |-> [fulfilled |-> {}, rejected |-> {}]]

\* for (let i = 0; i < tasks.length; i++) { ... }
Iterate ==
    /\ run.pc = "loop"
    /\ run.i <= run.n
    /\ run' = iterate(run)
    /\ UNCHANGED dispatchers

\* After the loop: checkCompletion(); return promise, or
\* await Promise.allSettled(this.#results) in src/taskProcessor.js
LoopEnds ==
    /\ run.pc = "loop"
    /\ run.i > run.n
    /\ run' = IF run.file = RunnerTP THEN checkCompletion([run EXCEPT !.pc = "wait"])
              ELSE IF run.file = RunnerPart THEN [run EXCEPT !.pc = "wait"]
              ELSE [run EXCEPT !.pc = "allSettled"]
    /\ UNCHANGED dispatchers

\* A task that was started ends, and the callbacks on its promise run
Settle ==
    /\ run.pc \in Suspended
    /\ \E x \in Running(run), o \in Outcomes :
        /\ o = "halt" => run.file # RunnerLower
        /\ run' = IF run.file = RunnerTP
                  THEN IF run.execs[x].round = run.round
                       THEN checkCompletion(settled(run, x, run.execs[x].task, o))
                       ELSE settled(run, x, run.execs[x].task, o)
                  ELSE IF run.file = RunnerPart
                  THEN finally(settled(run, x, run.execs[x].task, o), run.execs[x].round,
                               run.count[run.execs[x].round] \cup {run.execs[x].task})
                  ELSE settled(run, x, run.execs[x].task, o)
    /\ UNCHANGED dispatchers

\* await Promise.race(executing) returns or, in src/taskProcessor.js whose
\* catch() has no handler, throws; then if (this.#shouldStopAll) break
Resume ==
    /\ run.pc = "race"
    /\ run.race # "none"
    /\ run' = IF run.file = RunnerLower
              THEN IF run.race = "rejected" THEN [run EXCEPT !.pc = "threw"]
                   ELSE [run EXCEPT !.pc = "loop", !.i = @ + 1]
              ELSE IF run.shouldStopAll THEN [run EXCEPT !.pc = "loop", !.i = run.n + 1]
              ELSE [run EXCEPT !.pc = "loop", !.i = @ + 1]
    /\ UNCHANGED dispatchers

\* const isFulfilled = await this.#executeTasksWithLimit(tasks, concurrencyLimit)
RoundEnds ==
    /\ \/ /\ run.pc = "wait"
          /\ run.promise # "pending"
          /\ run' = roundOver(run, run.promise = "true")
       \/ /\ run.pc = "allSettled"
          /\ allSettled(run)
          /\ run' = roundOver(run, Cardinality(run.fulfilled) + run.stopCount >= run.n)
    /\ UNCHANGED dispatchers

\* while (maxRetry-- && !this.#shouldStopAll) after the delay: the next round
Retry ==
    /\ run.pc = "delay"
    /\ run' = IF run.shouldStopAll THEN resolvePromises(run)
              ELSE [run EXCEPT !.maxRetry = @ - 1, !.round = @ + 1, !.pc = "loop", !.i = 1,
                               !.executing = {}, !.snapshot = {}, !.race = "none",
                               !.promise = "pending"]
    /\ UNCHANGED dispatchers

\* for (const promise of this.#results) { await promise ... }
Collect ==
    /\ run.pc = "collect"
    /\ allSettled(run)
    /\ run' = [run EXCEPT !.pc = "returned",
                          !.result = [fulfilled |-> reported(run, {"fulfilled"}),
                                      rejected |-> reported(run, {"rejected", "cancelled"})]]
    /\ UNCHANGED dispatchers

NextRun == Iterate \/ LoopEnds \/ Settle \/ Resume \/ RoundEnds \/ Retry \/ Collect

SpecRun == InitRun /\ [][NextRun]_vars

----------------------------------------------------------------------------
\* What the claims speak of

\* v matches the pattern text p: matchesType returns true
TypeMatches(i, v, p) == matchesType(i, EmptyCache, v, p).r

\* The argument list matches the pattern list: matchesSignature returns true
SignatureMatches(i, args, pats) == matchesSignature(i, EmptyCache, args, pats).r

\* The pattern list as add normalizes it: whitespace around a pattern is trimmed
Normalized(pats) == [i \in 1..Len(pats) |-> Trim(pats[i])]
IsWildcard(pats) == Normalized(pats) = << S_any >>

\* The add calls that registered the wildcard, and those of the other
\* signatures that match the arguments of the last call
WildcardAdds == {i \in 1..Len(registered) : IsWildcard(registered[i])}
MatchingAdds == {i \in 1..Len(registered) :
                    ~IsWildcard(registered[i]) /\ SignatureMatches(impl, last.args, Normalized(registered[i]))}

\* The add calls of the same signature as add call i
SameSignature(i) == {j \in 1..Len(registered) : Normalized(registered[j]) = Normalized(registered[i])}

\* The function a signature stands for is the one registered last under it; a
\* signature is as old as its first registration
CurrentFn(i) == MaxOf(SameSignature(i))
FirstAdd(i) == MinOf(SameSignature(i))

----------------------------------------------------------------------------
\* C1: with "any" registered, a call invokes the function registered under
\* "any" if and only if no entry registered under another signature matches
\* the arguments, whether "any" was registered before or after the others.
C1_WildcardIsDeferredFallback ==
    (last.op = "call" /\ WildcardAdds # {}) =>
        ((last.invoked \in WildcardAdds) <=> (MatchingAdds = {}))

\* C2: when non-wildcard entries match the arguments, the call invokes the
\* one whose signature was registered earliest.
C2_EarliestMatchingEntryWins ==
    (last.op = "call" /\ MatchingAdds # {}) =>
        \E i \in MatchingAdds :
            /\ \A j \in MatchingAdds : FirstAdd(i) <= FirstAdd(j)
            /\ last.invoked = CurrentFn(i)

\* C3: after add(p1..pn, f) and a later add(p1..pn, g), a call that resolves
\* to that signature invokes g, never f: the function invoked is the one
\* registered last under its signature.
C3_LastRegistrationWins ==
    (last.op = "call" /\ last.invoked # 0) => last.invoked = CurrentFn(last.invoked)

\* C4: a call throws the no-matching-signature error, with the JSON text of
\* the argument list in its message, exactly when no registered non-wildcard
\* entry matches the arguments and no "any" entry is registered; then no
\* function is invoked and the registry is as it was before the call.
C4_NoMatchingSignatureError ==
    [][last'.op = "call" =>
          /\ (last'.error = "Error") <=>
                /\ {i \in 1..Len(registered') : IsWildcard(registered'[i])} = {}
                /\ \A i \in 1..Len(registered') :
                      ~SignatureMatches(impl', last'.args, Normalized(registered'[i]))
          /\ last'.error # "" =>
                /\ last'.error = "Error"
                /\ last'.message = Stringify(Arr(last'.args))
                /\ last'.invoked = 0
                /\ signatures' = signatures]_vars

\* C5: no error other than the no-matching-signature error reaches the caller
\* of a call: a mismatch makes the matcher return false, it never throws.
C5_OnlyNoMatchingSignatureIsThrown ==
    last.op = "call" => last.error \in {"", "Error"}

----------------------------------------------------------------------------
\* A pattern with the ? marker, and the number of patterns without it
HasMarker(p) == Len(p) > 0 /\ p[Len(p)] = "?"
Required(pats) == Cardinality({i \in 1..Len(pats) : ~HasMarker(pats[i])})

\* C6: matchesSignature(actuals, patterns) is false when actuals has fewer
\* elements than there are patterns without a ? marker, or more elements than
\* patterns; otherwise it is true exactly when every actuals[i] matches
\* patterns[i].  So ("number", "number?") matches one number, and neither no
\* argument nor three.
C6_MatchesSignature ==
    last.op = "matchesSignature" =>
        /\ last.error = ""
        /\ last.result =
              /\ Len(last.args) >= Required(last.pats)
              /\ Len(last.args) <= Len(last.pats)
              /\ \A i \in 1..Len(last.args) : TypeMatches(impl, last.args[i], last.pats[i])
        /\ last.pats = << S_number, T_numberOpt >> =>
              /\ last.args = << Num(1) >> => last.result
              /\ Len(last.args) \in {0, 3} => ~last.result

C6_Witness ==
    /\ last.op = "matchesSignature"
    /\ last.pats = << S_number, T_numberOpt >>
    /\ last.args = << Num(1) >>
    /\ last.result

\* C7: matchesType(v, "any") is true for every value v: null, undefined,
\* arrays (empty or not), records and functions among them.
C7_AnyMatchesEveryValue ==
    (last.op = "matchesType" /\ last.pats = << S_any >>) => (last.result /\ last.error = "")

C7_Witness ==
    /\ last.op = "matchesType"
    /\ last.pats = << S_any >>
    /\ last.args = << Arr(<< >>) >>
    /\ last.result

\* C8: the empty array does not match string[], number[] or boolean[], and it
\* matches any[].
C8_EmptyArray ==
    (last.op = "matchesType" /\ last.args = << Arr(<< >>) >>) =>
        /\ last.pats \in {<< T_stringArr >>, << T_numberArr >>, << T_booleanArr >>} => ~last.result
        /\ last.pats = << T_anyArr >> => last.result

C8_Witness ==
    /\ last.op = "matchesType"
    /\ last.args = << Arr(<< >>) >>
    /\ last.pats = << T_stringArr >>
    /\ ~last.result

\* C9: the empty array matches a homogeneous array pattern T[] only if T is
\* exactly array or any.
C9_EmptyArrayOnlyForArrayOrAny ==
    \A t \in ElementTypes :
        (last.op = "matchesType" /\ last.args = << Arr(<< >>) >> /\ last.pats = << ArrayText(t) >> /\ last.result)
            => t \in {S_array, S_any}

\* C10: a value matches the heterogeneous array pattern [T1,...,Tn] if and
\* only if it is an array of length exactly n whose i-th element matches Ti;
\* [1,"a"] matches [number,string] and [1,"a",2] does not.
C10_HeterogeneousArray ==
    \A ts \in TupleLists :
        (last.op = "matchesType" /\ last.pats = << TupleText(ts) >>) =>
            last.result =
                /\ last.args[1].k = "array"
                /\ Len(last.args[1].e) = Len(ts)
                /\ \A i \in 1..Len(ts) : TypeMatches(impl, last.args[1].e[i], ts[i])

C10_Witness ==
    /\ last.op = "matchesType"
    /\ last.pats = << TupleText(<< S_number, S_string >>) >>
    /\ last.args = << Arr(<< Num(1), Str(<< "a" >>) >>) >>
    /\ last.result

\* C11: a record matches an object pattern with declared properties if and
\* only if every declared property that is not optional is present with a value
\* that matches its type, and every optional one is absent or present with a
\* value that matches its type; properties that are not declared do not count.
C11_ObjectProperties ==
    \A ds \in PropertyLists :
        (last.op = "matchesType" /\ last.pats = << ObjectText(ds) >> /\ last.args[1].k = "object") =>
            last.result =
                \A i \in 1..Len(ds) :
                    LET at == IndexOf(last.args[1].ks, ds[i][1])
                    IN  \/ at # 0 /\ TypeMatches(impl, last.args[1].e[at], ds[i][2])
                        \/ ds[i][3] /\ at = 0

----------------------------------------------------------------------------
\* A type node: one of the six kinds, with type nodes below it
RECURSIVE IsTypeNode(_)
IsTypeNode(node) ==
    /\ node.kind \in {"union", "array", "literalArray", "object", "literal", "primitive"}
    /\ \A i \in 1..Len(node.sub) : IsTypeNode(node.sub[i])

\* No rule before the primitive one applies to the text: it holds no |, does
\* not end in [], is not enclosed in ( ), [ ] or { }, and is no literal
NoStructuralRule(t) ==
    /\ ~Includes(t, << "|" >>)
    /\ ~EndsWith(t, << "[", "]" >>)
    /\ ~(StartsWith(t, << "(" >>) /\ EndsWith(t, << ")" >>))
    /\ ~(StartsWith(t, << "[" >>) /\ EndsWith(t, << "]" >>))
    /\ ~(StartsWith(t, << "{" >>) /\ EndsWith(t, << "}" >>))
    /\ ~IsNumericLiteral(t) /\ ~IsQuotedLiteral(t) /\ t \notin {S_true, S_false}

\* C12: parsing is total: for every pattern text, the empty text, texts with
\* unbalanced brackets or quotes and texts of separators only among them, it
\* returns a type node, and a primitive node that wraps the text when no
\* structural rule applies.
C12_ParseIsTotal ==
    last.op \in {"parseType", "cached"} =>
        /\ IsTypeNode(last.result)
        /\ NoStructuralRule(Trim(last.pats[1])) =>
              last.result = PrimitiveNode(Trim(last.pats[1]), EndsWith(Trim(last.pats[1]), << "?" >>))

\* C13: the pattern cache is append-only and its trees never change: an entry,
\* once created, is never removed and is the tree the parse of its text gives.
C13_CacheIsAppendOnly ==
    /\ [](\A p \in DOMAIN cache : cache[p] = parseType(impl, p))
    /\ [][DOMAIN cache \subseteq DOMAIN cache']_vars

\* C14: matching and the selection of an implementation change no argument:
\* after a call each argument holds what it held before (an array the same
\* elements), and the implementation invoked receives the arguments as the
\* caller passed them, empty arrays included.
C14_ArgumentsAreNotModified ==
    last.op = "call" =>
        /\ last.after = last.args
        /\ last.invoked # 0 => last.received = last.args

\* C15: a call that does not throw invokes exactly one registered function,
\* once, and returns what that function returned, a pending promise as it is;
\* the entries tested and rejected before it are not invoked.
C15_ExactlyOneImplementationIsInvoked ==
    (last.op = "call" /\ last.error = "") =>
        /\ Len(last.calls) = 1
        /\ last.calls[1] \in 1..Len(registered)
        /\ last.calls[1] = last.invoked
        /\ last.returned = Implementation(last.calls[1], last.received)

C15_Witness ==
    /\ last.op = "call"
    /\ Len(registered) = 3
    /\ last.calls = << 2 >>
    /\ last.returned = Pending(2)

\* C16: add normalizes a pattern by trimming the whitespace around it only, so
\* the normalization does not change which values the pattern matches: a call
\* invokes a function exactly when the arguments match the patterns some
\* function was registered with, and one registered with patterns they match;
\* after add('"a b"', f) the call with "a b" invokes f and the call with "ab"
\* does not.
C16_NormalizationOnlyTrims ==
    last.op = "call" =>
        /\ (last.invoked # 0) <=>
              \E i \in 1..Len(registered) : SignatureMatches(impl, last.args, Normalized(registered[i]))
        /\ last.invoked # 0 => SignatureMatches(impl, last.args, Normalized(registered[last.invoked]))
        /\ registered = << << T_quotedAB >> >> =>
              /\ last.args = << Str(<< "a", " ", "b" >>) >> => last.invoked = 1
              /\ last.args = << Str(<< "a", "b" >>) >> => last.invoked = 0

\* C17: a pattern that reaches the primitive fallback with a name that is no
\* runtime kind and not any, with or without a trailing ?, matches no value,
\* undefined included, and a signature that contains it matches no argument
\* list.
C17_MisspelledNameMatchesNothing ==
    /\ last.op = "matchesType" /\ last.pats[1] \in Misspelled => ~last.result
    /\ last.op = "matchesSignature" /\ (\E i \in 1..Len(last.pats) : last.pats[i] \in Misspelled) => ~last.result

\* C18: the optional primitive pattern K?, K the name of a runtime kind,
\* matches exactly the values of kind K and undefined, so neither null (unless
\* K is null) nor a value of another kind; the first match and every later
\* match against the pattern give the same result.
C18_OptionalPrimitive ==
    \A K \in RuntimeKinds :
        last.op = "matchesType" /\ last.pats[1] = OptionalText(K) =>
            last.result = (myTypeof(last.args[1]) = K \/ last.args[1] = Undefined)

\* A | of the text outside all brackets and quotes, from position i on
RECURSIVE TopLevelBar(_, _, _, _)
TopLevelBar(t, i, depth, quote) ==
    IF i > Len(t) THEN FALSE
    ELSE IF quote # "" THEN TopLevelBar(t, i + 1, depth, IF t[i] = quote THEN "" ELSE quote)
    ELSE IF t[i] \in {"\"", "'"} THEN TopLevelBar(t, i + 1, depth, t[i])
    ELSE IF t[i] \in {"[", "{", "("} THEN TopLevelBar(t, i + 1, depth + 1, quote)
    ELSE IF t[i] \in {"]", "}", ")"} THEN TopLevelBar(t, i + 1, depth - 1, quote)
    ELSE IF t[i] = "|" /\ depth = 0 THEN TRUE
    ELSE TopLevelBar(t, i + 1, depth, quote)

\* The node kinds of the first rule that applies to the trimmed text t, the
\* rules taken in the order union, array suffix, parenthesized group, bracketed
\* array, object, literal, primitive
RECURSIVE FirstRuleKinds(_)
FirstRuleKinds(t) ==
    IF TopLevelBar(t, 1, 0, "") THEN {"union"}
    ELSE IF EndsWith(t, << "[", "]" >>) THEN {"array"}
    ELSE IF StartsWith(t, << "(" >>) /\ EndsWith(t, << ")" >>) THEN FirstRuleKinds(Trim(SliceInner(t)))
    ELSE IF StartsWith(t, << "[" >>) /\ EndsWith(t, << "]" >>) THEN {"array", "literalArray"}
    ELSE IF StartsWith(t, << "{" >>) /\ EndsWith(t, << "}" >>) THEN {"object"}
    ELSE IF IsNumericLiteral(t) \/ IsQuotedLiteral(t) \/ t \in {S_true, S_false} THEN {"literal"}
    ELSE {"primitive"}

\* C19: the parser applies its rules in the order union, array suffix,
\* parenthesized group, bracketed array, object, literal, primitive, and the
\* first rule that applies decides the kind of the node: a text with a |
\* outside all brackets and quotes parses to a union, also when it ends in []
\* ("string|number[]" matches "x" and [1] and not ["x"]), and a | inside
\* brackets, braces, parentheses or quotes does not split the text.
C19_RuleOrder ==
    last.op = "parseType" =>
        /\ last.result.kind \in FirstRuleKinds(Trim(last.pats[1]))
        /\ last.pats[1] = T_stringOrNumberArr =>
              /\ TypeMatches(impl, Str(<< "x" >>), T_stringOrNumberArr)
              /\ TypeMatches(impl, Arr(<< Num(1) >>), T_stringOrNumberArr)
              /\ ~TypeMatches(impl, Arr(<< Str(<< "x" >>) >>), T_stringOrNumberArr)

\* C20: the parenthesized pattern (T) matches exactly the values that T
\* matches: as a whole pattern; as a member of a union, where (T)|boolean
\* matches what T matches and the booleans; and as the element type of an
\* array pattern, where (T)[] matches an array with elements when each element
\* matches T, and what T[] matches when T holds no |.
C20_ParenthesizedGroup ==
    \A T \in GroupTypes :
        last.op = "matchesType" =>
            /\ last.pats[1] = GroupText(T) => last.result = TypeMatches(impl, last.args[1], T)
            /\ last.pats[1] = UnionText(GroupText(T), S_boolean) =>
                  last.result = (TypeMatches(impl, last.args[1], T) \/ last.args[1].k = "boolean")
            /\ last.pats[1] = ArrayText(GroupText(T)) =>
                  /\ last.args[1].k = "array" /\ last.args[1].e # << >> =>
                        last.result = \A i \in 1..Len(last.args[1].e) : TypeMatches(impl, last.args[1].e[i], T)
                  /\ ~Includes(T, << "|" >>) => last.result = TypeMatches(impl, last.args[1], ArrayText(T))

\* The parameters of a pattern list that are required: those whose own
\* pattern does not end with the ? suffix
RequiredByOwnSuffix(pats) == {i \in 1..Len(pats) : ~EndsWith(Trim(pats[i]), << "?" >>)}

\* C22: a parameter is optional for the arity only when its own pattern ends
\* with ?: a call that invokes an entry passes at least as many arguments as
\* the entry has patterns that do not end with ?, and after
\* add("{a?:number}", f) the call with no argument invokes nothing.
C22_OptionalOnlyBySuffix ==
    last.op = "call" =>
        /\ last.invoked # 0 /\ ~IsWildcard(registered[last.invoked]) =>
              Len(last.args) >= Cardinality(RequiredByOwnSuffix(registered[last.invoked]))
        /\ registered = << << T_optionalA >> >> /\ last.args = << >> => last.invoked = 0

\* C23: a value matches the index-signature pattern {[k:K]:V} if and only if
\* it is a plain record and, for each of its own keys, the key as a string
\* matches K and the value under it matches V; so the empty record matches
\* every such pattern, and an array or null matches none.
C23_IndexSignature ==
    \A K \in KeyTypes, V \in ValueTypes :
        last.op = "matchesType" /\ last.pats[1] = IndexText(K, V) =>
            /\ last.error = ""
            /\ last.result =
                  (/\ last.args[1].k = "object"
                   /\ \A i \in 1..Len(last.args[1].ks) :
                         /\ TypeMatches(impl, Str(last.args[1].ks[i]), K)
                         /\ TypeMatches(impl, last.args[1].e[i], V))

C23_Witness ==
    /\ last.op = "matchesType"
    /\ last.pats[1] = IndexText(S_string, T_union)
    /\ last.args[1] = Obj(<< << "a" >>, << "b" >> >>, << Num(1), Str(<< "x" >>) >>)
    /\ last.result

\* C25: caching is transparent: matchesType(v, p) gives on every evaluation,
\* the first one that parses p and the later ones that take the tree from the
\* cache, the result it gives with an empty cache; also for a pattern with
\* several ? characters such as "string??".
C25_CachingIsTransparent ==
    last.op = "matchesType" => last.result = TypeMatches(impl, last.args[1], last.pats[1])

\* C27: a signature registered with no pattern matches the call with no
\* argument: after add(f) alone, the call with no argument invokes f and does
\* not throw.
C27_NoPatternsMatchesNoArguments ==
    last.op = "call" /\ registered = << << >> >> /\ last.args = << >> =>
        last.invoked = 1 /\ last.error = ""

\* C28: writing a signature as a key and reading it back loses nothing: the
\* pattern list that a call matches the arguments against, the key of the add
\* split at the separator, is the pattern list passed to add, of the same
\* length and with the same texts; also for "-1" and for "a-b" in quotes.
C28_SignatureKeyRoundTrip ==
    last.op = "add" => SplitChar(last.key, "-") = Normalized(last.pats)

\* C29: when matchesSignature(actuals, patterns) is true, every required
\* parameter received an argument: each pattern without a ? has an index
\* within the arguments and the argument at that index matches it, also when
\* an optional pattern precedes a required one (["number?", "number"] with one
\* argument).
C29_RequiredParametersReceiveArguments ==
    last.op = "matchesSignature" /\ last.result =>
        \A i \in 1..Len(last.pats) :
            ~Includes(last.pats[i], << "?" >>) =>
                i <= Len(last.args) /\ TypeMatches(impl, last.args[i], last.pats[i])

\* What the second dispatcher does with the arguments when the cache is c:
\* the function it invokes, or the error it throws
SecondSelects(c, args) ==
    LET res == overloade(impl, second, c, args)
    IN  << res.invoked, res.error >>

\* C26: two dispatchers made by separate overloader() calls are independent:
\* no add and no call on the one changes, for any argument list, which
\* function the other invokes or whether it throws, although both use the one
\* pattern cache.
C26_DispatchersAreIndependent ==
    [][last'.op \in {"add", "call"} =>
          \A args \in TwoArgs : SecondSelects(cache', args) = SecondSelects(cache, args)]_vars

\* The executions of task i among those started so far
ExecutionsOf(r, i) == {x \in 1..Len(r.execs) : r.execs[x].task = i}

\* C21: while runTasks runs, the task executions that have been started and
\* have not settled are never more than concurrencyLimit, whatever the order
\* in which tasks fulfil and fail, in every round.
C21_ConcurrencyLimit ==
    run.pc # "idle" => Cardinality(Running(run)) <= run.limit

\* C24: a step of runTasks that starts a task starts one that has neither
\* fulfilled nor been cancelled in an earlier round, and never starts a task
\* for more than the maxRetry-th time.
C24_SettledTasksAreNotRestarted ==
    [][Len(run'.execs) > Len(run.execs) =>
          /\ \A x \in ExecutionsOf(run, run.i) :
                 run.execs[x].state \notin {"fulfilled", "cancelled"}
          /\ Cardinality(ExecutionsOf(run', run.i)) <= run.retries]_vars

\* Task i failed in one round and fulfilled in a later one
FulfilledOnRetry(r, i) ==
    \E x, y \in ExecutionsOf(r, i) :
        /\ r.execs[x].round < r.execs[y].round
        /\ r.execs[x].state = "rejected"
        /\ r.execs[y].state = "fulfilled"

\* C30: as long as neither halt nor abort was called, runTasks has returned
\* only if every execution it started has settled, every execution that has
\* not settled is one of the current round, and in the returned result a
\* task that failed in one round and fulfilled in a later one is under
\* fulfilled and not under rejected.
C30_RoundsAndResultWaitForTasks ==
    (run.pc # "idle" /\ ~run.shouldStopAll) =>
        /\ run.pc = "returned" => Running(run) = {}
        /\ \A x \in Running(run) : run.execs[x].round = run.round
        /\ run.pc = "returned" =>
               \A i \in 1..run.n : FulfilledOnRetry(run, i) =>
                   i \in run.result.fulfilled /\ i \notin run.result.rejected

====
